---- MODULE Spec2Model ----
(***************************************************************************)
(* Kubli: password based encryption of the files of one directory and of   *)
(* their names (src/kubli.py, src/utils/encryption.py,                     *)
(* src/utils/decryption.py).                                               *)
(*                                                                         *)
(* Strings and byte strings are sequences of character codes (0..255).     *)
(* base64 is modelled bit for bit, as base64.urlsafe_b64encode and the     *)
(* lenient base64.urlsafe_b64decode compute it.  The two primitives of the *)
(* libraries, SHA-256 and the Fernet token (AES-CBC + HMAC), are scaled    *)
(* down to one byte of digest arithmetic each: they keep the layout of the *)
(* token (version byte, IV, ciphertext, MAC, the whole base64 encoded),    *)
(* the checks of Fernet.decrypt and the dependence of the MAC on the key.  *)
(***************************************************************************)
EXTENDS Integers, Sequences, FiniteSets, TLC

----------------------------------------------------------------------------
(* Character codes used by the program text.                               *)

PadChar == 61
UnderscoreChar == 95
SlashChar == 47
DotChar == 46
SpaceChar == 32
FernetVersion == 128
KeyLen == 32

\* ".kubli"
KubliSuffix == <<46, 107, 117, 98, 108, 105>>
\* ".py"
PySuffix == <<46, 112, 121>>
\* "kubli.py"
ScriptName == <<107, 117, 98, 108, 105, 46, 112, 121>>
\* "y"
Yes == <<121>>

Range(s) == {s[i] : i \in 1..Len(s)}

\* F applied to the value of e: a local variable, assigned once and read
\* many times
With(e, F(_)) == CHOOSE r \in {F(x) : x \in {e}} : TRUE

RECURSIVE SumSeq(_)
SumSeq(s) ==
    IF s = <<>> THEN 0
    ELSE IF Len(s) = 1 THEN s[1]
    ELSE SumSeq(SubSeq(s, 1, Len(s) \div 2)) + SumSeq(SubSeq(s, Len(s) \div 2 + 1, Len(s)))

----------------------------------------------------------------------------
(* Python string operations.                                               *)

\* str.replace(old, new): every non-overlapping occurrence, left to right
RECURSIVE Replace(_, _, _)
Replace(s, old, new) ==
    LET found == {i \in 1..(Len(s) - Len(old) + 1) : SubSeq(s, i, i + Len(old) - 1) = old}
    IN IF found = {} THEN s
       ELSE LET first == CHOOSE i \in found : \A j \in found : i <= j
            IN SubSeq(s, 1, first - 1) \o new \o
               Replace(SubSeq(s, first + Len(old), Len(s)), old, new)

\* str.endswith(suffix)
EndsWith(s, suffix) ==
    /\ Len(s) >= Len(suffix)
    /\ SubSeq(s, Len(s) - Len(suffix) + 1, Len(s)) = suffix

\* str.lower() on ASCII
Lower(s) == [i \in 1..Len(s) |-> IF s[i] >= 65 /\ s[i] <= 90 THEN s[i] + 32 ELSE s[i]]

\* str.strip(): leading and trailing blanks removed
RECURSIVE LStrip(_)
LStrip(s) == IF s # <<>> /\ Head(s) = SpaceChar THEN LStrip(Tail(s)) ELSE s

RECURSIVE RStrip(_)
RStrip(s) ==
    IF s # <<>> /\ s[Len(s)] = SpaceChar THEN RStrip(SubSeq(s, 1, Len(s) - 1)) ELSE s

Strip(s) == RStrip(LStrip(s))

\* index of the last '/' of a path, 0 when there is none
LastSlash(p) ==
    LET idx == {i \in 1..Len(p) : p[i] = SlashChar}
    IN IF idx = {} THEN 0 ELSE CHOOSE i \in idx : \A j \in idx : j <= i

\* os.path.basename
basename(p) == SubSeq(p, LastSlash(p) + 1, Len(p))

\* os.path.dirname (paths of the model have no doubled or trailing slash)
dirname(p) == IF LastSlash(p) <= 1 THEN SubSeq(p, 1, LastSlash(p))
              ELSE SubSeq(p, 1, LastSlash(p) - 1)

\* os.path.join(a, b)
join(a, b) ==
    IF b # <<>> /\ Head(b) = SlashChar THEN b
    ELSE IF a = <<>> \/ a[Len(a)] = SlashChar THEN a \o b
    ELSE a \o <<SlashChar>> \o b

----------------------------------------------------------------------------
(* base64, URL-safe alphabet.                                              *)

\* the character of a 6-bit value: A-Z a-z 0-9 - _
B64Char(v) ==
    IF v < 26 THEN 65 + v
    ELSE IF v < 52 THEN 97 + (v - 26)
    ELSE IF v < 62 THEN 48 + (v - 52)
    ELSE IF v = 62 THEN 45 ELSE 95

\* the 6-bit value of a character, 64 when it is not in the alphabet;
\* urlsafe_b64decode maps '-' and '_' to '+' and '/' and then decodes with
\* the standard table, so '+' and '/' are accepted as well
B64Val(c) ==
    IF c >= 65 /\ c <= 90 THEN c - 65
    ELSE IF c >= 97 /\ c <= 122 THEN c - 71
    ELSE IF c >= 48 /\ c <= 57 THEN c + 4
    ELSE IF c = 45 \/ c = 43 THEN 62
    ELSE IF c = 95 \/ c = 47 THEN 63
    ELSE 64

\* base64.urlsafe_b64encode(bytes)
urlsafe_b64encode(b) ==
    With(b, LAMBDA bin :
        [j \in 1..(4 * ((Len(bin) + 2) \div 3)) |->
            With([k \in 1..3 |-> IF 3 * ((j - 1) \div 4) + k <= Len(bin)
                                 THEN bin[3 * ((j - 1) \div 4) + k] ELSE 0],
                 LAMBDA t :
                    CASE (j - 1) % 4 = 0 -> B64Char(t[1] \div 4)
                      [] (j - 1) % 4 = 1 -> B64Char((t[1] % 4) * 16 + (t[2] \div 16))
                      [] (j - 1) % 4 = 2 ->
                             IF 3 * ((j - 1) \div 4) + 2 > Len(bin) THEN PadChar
                             ELSE B64Char((t[2] % 16) * 4 + (t[3] \div 64))
                      [] OTHER ->
                             IF 3 * ((j - 1) \div 4) + 3 > Len(bin) THEN PadChar
                             ELSE B64Char(t[3] % 64))])

\* binascii.a2b_base64 in its default, non-strict mode, in three parts.
\* The index at which decoding ends early, 0 when it reads all of s: a pad
\* met with two or three digits of a quantum read ends the input once the
\* pads since the last digit complete the quantum.
B64End(s) ==
    LET IsDigit(i) == B64Val(s[i]) # 64
        quad_pos(i) == Cardinality({j \in 1..(i - 1) : IsDigit(j)}) % 4
        pads(i) == Cardinality({j \in 1..i : s[j] = PadChar /\ \A k \in j..i : ~IsDigit(k)})
        Ends(i) == s[i] = PadChar /\ quad_pos(i) >= 2 /\ quad_pos(i) + pads(i) >= 4
    IN IF \E i \in 1..Len(s) : Ends(i)
       THEN CHOOSE i \in 1..Len(s) : Ends(i) /\ \A j \in 1..(i - 1) : ~Ends(j)
       ELSE 0

\* The digits read: characters outside the alphabet are skipped.
B64Digits(s) == SelectSeq(s, LAMBDA c : B64Val(c) # 64)

\* The bytes of the digits d: three of every four digits, one or two of a
\* last quantum of two or three.
B64Bytes(d) ==
    [k \in 1..(3 * (Len(d) \div 4) + (IF Len(d) % 4 = 0 THEN 0 ELSE (Len(d) % 4) - 1)) |->
        CASE (k - 1) % 3 = 0 ->
                 B64Val(d[4 * ((k - 1) \div 3) + 1]) * 4
                 + (B64Val(d[4 * ((k - 1) \div 3) + 2]) \div 16)
          [] (k - 1) % 3 = 1 ->
                 (B64Val(d[4 * ((k - 1) \div 3) + 2]) % 16) * 16
                 + (B64Val(d[4 * ((k - 1) \div 3) + 3]) \div 4)
          [] OTHER ->
                 (B64Val(d[4 * ((k - 1) \div 3) + 3]) % 4) * 64
                 + B64Val(d[4 * ((k - 1) \div 3) + 4])]

\* The result for the digits d; an incomplete last quantum with no pads to
\* complete it is the error "Incorrect padding".
B64Result(d, ended) ==
    IF ~ended /\ Len(d) % 4 # 0 THEN [ok |-> FALSE, val |-> <<>>]
    ELSE [ok |-> TRUE, val |-> B64Bytes(d)]

B64Read(s, end) ==
    With(B64Digits(IF end = 0 THEN s ELSE SubSeq(s, 1, end)),
         LAMBDA d : B64Result(d, end # 0))

\* base64.urlsafe_b64decode(s): [ok, val], ok = FALSE for binascii.Error
urlsafe_b64decode(s) ==
    With(s, LAMBDA str : With(B64End(str), LAMBDA end : B64Read(str, end)))

----------------------------------------------------------------------------
(* Library primitives, scaled down.                                        *)

\* hashlib.sha256(data).digest(): 32 bytes, a fixed function of the data
sha256(data) ==
    With(17 * SumSeq(data) + 31 * Len(data), LAMBDA h : [i \in 1..KeyLen |-> (h + 7 * i) % 256])

\* a key derivation that never feeds the password to the hash
generate_key_from_password_constant(password) == urlsafe_b64encode(sha256(<<>>))

\* a key derivation that encodes half of the digest
generate_key_from_password_short(password) ==
    urlsafe_b64encode(SubSeq(sha256(password), 1, 16))

\* generate_key_from_password(password)
generate_key_from_password(password) == urlsafe_b64encode(sha256(password))

\* Fernet(key): the key must decode to 32 bytes (else ValueError); the first
\* half signs, the second half encrypts
Fernet(key) ==
    With(urlsafe_b64decode(key), LAMBDA kb :
        IF kb.ok /\ Len(kb.val) = KeyLen
        THEN [ok |-> TRUE, sign |-> SubSeq(kb.val, 1, 16), enc |-> SubSeq(kb.val, 17, 32)]
        ELSE [ok |-> FALSE, sign |-> <<>>, enc |-> <<>>])

\* the MAC of a token body under a signing key
Hmac(sign, body) == (sign[1] + 3 * SumSeq(body) + Len(body)) % 256

\* Fernet.encrypt(data) with the IV it drew: base64 of
\* version | IV | ciphertext | MAC; there is no token where Fernet(key)
\* raised and no object was made
FernetEncrypt(f, data, iv) ==
    With(<<f, data>>, LAMBDA a :
        IF ~a[1].ok THEN <<>>
        ELSE With(<<FernetVersion, iv>> \o
                      [i \in 1..Len(a[2]) |-> (a[2][i] + a[1].enc[1] + iv) % 256],
                  LAMBDA body : urlsafe_b64encode(Append(body, Hmac(a[1].sign, body)))))

\* InvalidToken, binascii.Error, None: a call that gave no value
None == [ok |-> FALSE, val |-> <<>>]

\* Fernet.decrypt(token): [ok, val], ok = FALSE for InvalidToken
FernetDecrypt(f, token) ==
    With(<<f, urlsafe_b64decode(token)>>, LAMBDA a :
        With(a[2].val, LAMBDA raw :
            IF ~a[2].ok THEN None
            ELSE IF Len(raw) = 0 \/ raw[1] # FernetVersion THEN None
            ELSE IF Len(raw) < 3 THEN None
            ELSE IF raw[Len(raw)] # Hmac(a[1].sign, SubSeq(raw, 1, Len(raw) - 1)) THEN None
            ELSE [ok |-> TRUE,
                  val |-> [i \in 1..(Len(raw) - 3) |->
                              (raw[i + 2] - a[1].enc[1] - raw[2]) % 256]]))

\* bytes.decode(): the model's names are ASCII; any other byte is an error
Utf8Ok(b) == \A i \in 1..Len(b) : b[i] < 128

----------------------------------------------------------------------------
(* Name codec.                                                             *)

\* encrypt_filename that leaves the padding characters in
encrypt_filename_padded(filename, key, iv) ==
    LET fernet == Fernet(key)
    IN IF ~fernet.ok THEN None
       ELSE [ok |-> TRUE,
             val |-> urlsafe_b64encode(FernetEncrypt(fernet, filename, iv))]

\* encrypt_filename without its own base64 layer: the Fernet token with its
\* padding replaced
encrypt_filename_single(filename, key, iv) ==
    LET fernet == Fernet(key)
    IN IF ~fernet.ok THEN None
       ELSE [ok |-> TRUE,
             val |-> Replace(FernetEncrypt(fernet, filename, iv),
                             <<PadChar>>, <<UnderscoreChar>>)]

\* encrypt_filename(filename, key); iv is the IV Fernet.encrypt drew
encrypt_filename(filename, key, iv) ==
    LET fernet == Fernet(key)
    IN IF ~fernet.ok THEN None
       ELSE LET encrypted_filename == FernetEncrypt(fernet, filename, iv)
            IN [ok |-> TRUE,
                val |-> Replace(urlsafe_b64encode(encrypted_filename),
                                <<PadChar>>, <<UnderscoreChar>>)]

\* decrypt_filename that drops the substitute instead of restoring the padding
decrypt_filename_unpadded(encrypted_filename, key) ==
    LET fernet == Fernet(key)
        padded_filename == Replace(encrypted_filename, <<UnderscoreChar>>, <<>>)
        encrypted_data == urlsafe_b64decode(padded_filename)
    IN IF ~fernet.ok THEN None
       ELSE IF ~encrypted_data.ok THEN None
       ELSE LET decrypted == FernetDecrypt(fernet, encrypted_data.val)
            IN IF ~decrypted.ok THEN None
               ELSE IF ~Utf8Ok(decrypted.val) THEN None
               ELSE [ok |-> TRUE, val |-> decrypted.val]

\* decrypt_filename(encrypted_filename, key)
decrypt_filename(encrypted_filename, key) ==
    LET fernet == Fernet(key)
        padded_filename == Replace(encrypted_filename, <<UnderscoreChar>>, <<PadChar>>)
        encrypted_data == urlsafe_b64decode(padded_filename)
    IN IF ~fernet.ok THEN None
       ELSE IF ~encrypted_data.ok THEN None
       ELSE LET decrypted == FernetDecrypt(fernet, encrypted_data.val)
            IN IF ~decrypted.ok THEN None
               ELSE IF ~Utf8Ok(decrypted.val) THEN None
               ELSE [ok |-> TRUE, val |-> decrypted.val]

----------------------------------------------------------------------------
(* The file system: disk maps a path to [data, mode, isdir].  mode "rw" is *)
(* an ordinary file, "none" a file the process may neither read nor        *)
(* overwrite, "locked" a file it may read but neither overwrite nor        *)
(* remove.  full = TRUE is a device with no space left: a file can be      *)
(* created or truncated, writing a byte fails.                             *)

\* "d": the working directory of the process
Cwd == <<100>>

NoPath == <<>>

IsDir(dk, p) == p = Cwd \/ (p \in DOMAIN dk /\ dk[p].isdir)

\* os.path.exists(p)
exists(dk, p) == p = Cwd \/ p \in DOMAIN dk

\* os.path.isfile(p)
isfile(dk, p) == p \in DOMAIN dk /\ ~dk[p].isdir

\* open(p, "rb").read(): [ok, val]
ReadFile(dk, p) ==
    IF isfile(dk, p) /\ dk[p].mode # "none" THEN [ok |-> TRUE, val |-> dk[p].data]
    ELSE None

Put(dk, p, data) ==
    [q \in DOMAIN dk \cup {p} |->
        IF q = p THEN [data |-> data, mode |-> "rw", isdir |-> FALSE] ELSE dk[q]]

\* open(p, "wb") then write(data): [ok, disk]
WriteFile(dk, p, data, full) ==
    LET dir == IF dirname(p) = <<>> THEN Cwd ELSE dirname(p)
    IN IF ~IsDir(dk, dir) \/ p = Cwd
          \/ (p \in DOMAIN dk /\ (dk[p].isdir \/ dk[p].mode # "rw"))
       THEN [ok |-> FALSE, disk |-> dk]
       ELSE IF full /\ data # <<>> THEN [ok |-> FALSE, disk |-> Put(dk, p, <<>>)]
       ELSE [ok |-> TRUE, disk |-> Put(dk, p, data)]

\* os.remove(p): [ok, disk]
RemoveFile(dk, p) ==
    IF isfile(dk, p) /\ dk[p].mode # "locked"
    THEN [ok |-> TRUE, disk |-> [q \in DOMAIN dk \ {p} |-> dk[q]]]
    ELSE [ok |-> FALSE, disk |-> dk]

----------------------------------------------------------------------------
(* File codec.  Both return [ok, disk, out]: the boolean result, the disk  *)
(* the call leaves, and the path the call opened for writing (NoPath when  *)
(* it opened none).                                                        *)

\* encrypt_file that seals the whole path instead of the base name
encrypt_file_fullpath(dk, file_path, key, ivc, ivn, full) ==
    LET fernet == Fernet(key)
        original == ReadFile(dk, file_path)
        Failed == [ok |-> FALSE, disk |-> dk, out |-> NoPath]
    IN IF ~fernet.ok THEN Failed
       ELSE IF ~original.ok THEN Failed
       ELSE LET encrypted_data == FernetEncrypt(fernet, original.val, ivc)
                encrypted_filename == encrypt_filename(file_path, key, ivn)
            IN IF ~encrypted_filename.ok THEN Failed
               ELSE LET encrypted_file_path ==
                            join(dirname(file_path), encrypted_filename.val \o KubliSuffix)
                        w == WriteFile(dk, encrypted_file_path, encrypted_data, full)
                    IN [ok |-> w.ok, disk |-> w.disk,
                        out |-> IF w.disk = dk /\ ~w.ok THEN NoPath ELSE encrypted_file_path]

\* encrypt_file that also writes the sealed content over the source
encrypt_file_sealing_source(dk, file_path, key, ivc, ivn, full) ==
    LET fernet == Fernet(key)
        original == ReadFile(dk, file_path)
        Failed == [ok |-> FALSE, disk |-> dk, out |-> NoPath]
    IN IF ~fernet.ok THEN Failed
       ELSE IF ~original.ok THEN Failed
       ELSE LET encrypted_data == FernetEncrypt(fernet, original.val, ivc)
                encrypted_filename == encrypt_filename(basename(file_path), key, ivn)
            IN IF ~encrypted_filename.ok THEN Failed
               ELSE LET encrypted_file_path ==
                            join(dirname(file_path), encrypted_filename.val \o KubliSuffix)
                        w == WriteFile(dk, encrypted_file_path, encrypted_data, full)
                    IN [ok |-> w.ok, disk |-> Put(w.disk, file_path, encrypted_data),
                        out |-> IF w.disk = dk /\ ~w.ok THEN NoPath ELSE encrypted_file_path]

\* encrypt_file that opens the destination before it reads the source
encrypt_file_opening_first(dk, file_path, key, ivc, ivn, full) ==
    LET fernet == Fernet(key)
        original == ReadFile(dk, file_path)
        Failed == [ok |-> FALSE, disk |-> dk, out |-> NoPath]
        encrypted_filename == encrypt_filename(basename(file_path), key, ivn)
        encrypted_file_path ==
            join(dirname(file_path), encrypted_filename.val \o KubliSuffix)
    IN IF ~fernet.ok THEN Failed
       ELSE IF ~encrypted_filename.ok THEN Failed
       ELSE IF ~original.ok
            THEN [ok |-> FALSE, disk |-> WriteFile(dk, encrypted_file_path, <<>>, full).disk,
                  out |-> encrypted_file_path]
       ELSE LET encrypted_data == FernetEncrypt(fernet, original.val, ivc)
                w == WriteFile(dk, encrypted_file_path, encrypted_data, full)
            IN [ok |-> w.ok, disk |-> w.disk,
                out |-> IF w.disk = dk /\ ~w.ok THEN NoPath ELSE encrypted_file_path]

\* encrypt_file that writes every artifact to "out.kubli"
encrypt_file_one_name(dk, file_path, key, ivc, ivn, full) ==
    LET fernet == Fernet(key)
        original == ReadFile(dk, file_path)
        Failed == [ok |-> FALSE, disk |-> dk, out |-> NoPath]
    IN IF ~fernet.ok THEN Failed
       ELSE IF ~original.ok THEN Failed
       ELSE LET encrypted_data == FernetEncrypt(fernet, original.val, ivc)
                encrypted_file_path ==
                    join(dirname(file_path), <<111, 117, 116>> \o KubliSuffix)
                w == WriteFile(dk, encrypted_file_path, encrypted_data, full)
            IN [ok |-> w.ok, disk |-> w.disk,
                out |-> IF w.disk = dk /\ ~w.ok THEN NoPath ELSE encrypted_file_path]

\* encrypt_file(file_path, key); ivc, ivn are the IVs of the two seals
encrypt_file(dk, file_path, key, ivc, ivn, full) ==
    LET fernet == Fernet(key)
        original == ReadFile(dk, file_path)
        Failed == [ok |-> FALSE, disk |-> dk, out |-> NoPath]
    IN IF ~fernet.ok THEN Failed
       ELSE IF ~original.ok THEN Failed
       ELSE LET encrypted_data == FernetEncrypt(fernet, original.val, ivc)
                encrypted_filename == encrypt_filename(basename(file_path), key, ivn)
            IN IF ~encrypted_filename.ok THEN Failed
               ELSE LET encrypted_file_path ==
                            join(dirname(file_path), encrypted_filename.val \o KubliSuffix)
                        w == WriteFile(dk, encrypted_file_path, encrypted_data, full)
                    IN [ok |-> w.ok, disk |-> w.disk,
                        out |-> IF w.disk = dk /\ ~w.ok THEN NoPath ELSE encrypted_file_path]

\* decrypt_file that removes an artifact whose body does not open
decrypt_file_discarding(dk, file_path, key, full) ==
    LET fernet == Fernet(key)
        encrypted == ReadFile(dk, file_path)
        Failed == [ok |-> FALSE, disk |-> dk, out |-> NoPath]
    IN IF ~fernet.ok THEN Failed
       ELSE IF ~encrypted.ok THEN Failed
       ELSE LET decrypted_data == FernetDecrypt(fernet, encrypted.val)
            IN IF ~decrypted_data.ok
               THEN [ok |-> FALSE, disk |-> RemoveFile(dk, file_path).disk, out |-> NoPath]
               ELSE LET encrypted_filename == Replace(basename(file_path), KubliSuffix, <<>>)
                        original_filename == decrypt_filename(encrypted_filename, key)
                    IN IF ~original_filename.ok THEN Failed
                       ELSE LET original_file_path ==
                                    join(dirname(file_path), original_filename.val)
                                w == WriteFile(dk, original_file_path, decrypted_data.val, full)
                            IN [ok |-> w.ok, disk |-> w.disk,
                                out |-> IF w.disk = dk /\ ~w.ok THEN NoPath
                                        ELSE original_file_path]

\* decrypt_file that writes the content as it read it, still sealed
decrypt_file_sealed(dk, file_path, key, full) ==
    LET fernet == Fernet(key)
        encrypted == ReadFile(dk, file_path)
        Failed == [ok |-> FALSE, disk |-> dk, out |-> NoPath]
    IN IF ~fernet.ok THEN Failed
       ELSE IF ~encrypted.ok THEN Failed
       ELSE LET decrypted_data == FernetDecrypt(fernet, encrypted.val)
            IN IF ~decrypted_data.ok THEN Failed
               ELSE LET encrypted_filename == Replace(basename(file_path), KubliSuffix, <<>>)
                        original_filename == decrypt_filename(encrypted_filename, key)
                    IN IF ~original_filename.ok THEN Failed
                       ELSE LET original_file_path ==
                                    join(dirname(file_path), original_filename.val)
                                w == WriteFile(dk, original_file_path, encrypted.val, full)
                            IN [ok |-> w.ok, disk |-> w.disk,
                                out |-> IF w.disk = dk /\ ~w.ok THEN NoPath
                                        ELSE original_file_path]

\* decrypt_file that opens the destination before it opens the body
decrypt_file_opening_first(dk, file_path, key, full) ==
    LET fernet == Fernet(key)
        encrypted == ReadFile(dk, file_path)
        Failed == [ok |-> FALSE, disk |-> dk, out |-> NoPath]
    IN IF ~fernet.ok THEN Failed
       ELSE IF ~encrypted.ok THEN Failed
       ELSE LET encrypted_filename == Replace(basename(file_path), KubliSuffix, <<>>)
                original_filename == decrypt_filename(encrypted_filename, key)
            IN IF ~original_filename.ok THEN Failed
               ELSE LET original_file_path ==
                            join(dirname(file_path), original_filename.val)
                        decrypted_data == FernetDecrypt(fernet, encrypted.val)
                    IN IF ~decrypted_data.ok
                       THEN [ok |-> FALSE,
                             disk |-> WriteFile(dk, original_file_path, <<>>, full).disk,
                             out |-> original_file_path]
                       ELSE LET w == WriteFile(dk, original_file_path,
                                               decrypted_data.val, full)
                            IN [ok |-> w.ok, disk |-> w.disk,
                                out |-> IF w.disk = dk /\ ~w.ok THEN NoPath
                                        ELSE original_file_path]

\* decrypt_file that returns True when the body does not open
decrypt_file_swallowing(dk, file_path, key, full) ==
    LET fernet == Fernet(key)
        encrypted == ReadFile(dk, file_path)
        Failed == [ok |-> FALSE, disk |-> dk, out |-> NoPath]
    IN IF ~fernet.ok THEN Failed
       ELSE IF ~encrypted.ok THEN Failed
       ELSE LET decrypted_data == FernetDecrypt(fernet, encrypted.val)
            IN IF ~decrypted_data.ok THEN [ok |-> TRUE, disk |-> dk, out |-> NoPath]
               ELSE LET encrypted_filename == Replace(basename(file_path), KubliSuffix, <<>>)
                        original_filename == decrypt_filename(encrypted_filename, key)
                    IN IF ~original_filename.ok THEN Failed
                       ELSE LET original_file_path ==
                                    join(dirname(file_path), original_filename.val)
                                w == WriteFile(dk, original_file_path, decrypted_data.val, full)
                            IN [ok |-> w.ok, disk |-> w.disk,
                                out |-> IF w.disk = dk /\ ~w.ok THEN NoPath
                                        ELSE original_file_path]

\* decrypt_file that does not write over a file that is there
decrypt_file_exclusive(dk, file_path, key, full) ==
    LET fernet == Fernet(key)
        encrypted == ReadFile(dk, file_path)
        Failed == [ok |-> FALSE, disk |-> dk, out |-> NoPath]
    IN IF ~fernet.ok THEN Failed
       ELSE IF ~encrypted.ok THEN Failed
       ELSE LET decrypted_data == FernetDecrypt(fernet, encrypted.val)
            IN IF ~decrypted_data.ok THEN Failed
               ELSE LET encrypted_filename == Replace(basename(file_path), KubliSuffix, <<>>)
                        original_filename == decrypt_filename(encrypted_filename, key)
                    IN IF ~original_filename.ok THEN Failed
                       ELSE LET original_file_path ==
                                    join(dirname(file_path), original_filename.val)
                                w == WriteFile(dk, original_file_path, decrypted_data.val, full)
                            IN IF exists(dk, original_file_path) THEN Failed
                               ELSE [ok |-> w.ok, disk |-> w.disk,
                                     out |-> IF w.disk = dk /\ ~w.ok THEN NoPath
                                             ELSE original_file_path]

\* decrypt_file that removes the artifact it has decrypted
decrypt_file_consuming(dk, file_path, key, full) ==
    LET fernet == Fernet(key)
        encrypted == ReadFile(dk, file_path)
        Failed == [ok |-> FALSE, disk |-> dk, out |-> NoPath]
    IN IF ~fernet.ok THEN Failed
       ELSE IF ~encrypted.ok THEN Failed
       ELSE LET decrypted_data == FernetDecrypt(fernet, encrypted.val)
            IN IF ~decrypted_data.ok THEN Failed
               ELSE LET encrypted_filename == Replace(basename(file_path), KubliSuffix, <<>>)
                        original_filename == decrypt_filename(encrypted_filename, key)
                    IN IF ~original_filename.ok THEN Failed
                       ELSE LET original_file_path ==
                                    join(dirname(file_path), original_filename.val)
                                w == WriteFile(dk, original_file_path, decrypted_data.val, full)
                            IN [ok |-> w.ok,
                                disk |-> IF w.ok THEN RemoveFile(w.disk, file_path).disk
                                         ELSE w.disk,
                                out |-> IF w.disk = dk /\ ~w.ok THEN NoPath
                                        ELSE original_file_path]

\* decrypt_file(file_path, key)
decrypt_file(dk, file_path, key, full) ==
    LET fernet == Fernet(key)
        encrypted == ReadFile(dk, file_path)
        Failed == [ok |-> FALSE, disk |-> dk, out |-> NoPath]
    IN IF ~fernet.ok THEN Failed
       ELSE IF ~encrypted.ok THEN Failed
       ELSE LET decrypted_data == FernetDecrypt(fernet, encrypted.val)
            IN IF ~decrypted_data.ok THEN Failed
               ELSE LET encrypted_filename == Replace(basename(file_path), KubliSuffix, <<>>)
                        original_filename == decrypt_filename(encrypted_filename, key)
                    IN IF ~original_filename.ok THEN Failed
                       ELSE LET original_file_path ==
                                    join(dirname(file_path), original_filename.val)
                                w == WriteFile(dk, original_file_path, decrypted_data.val, full)
                            IN [ok |-> w.ok, disk |-> w.disk,
                                out |-> IF w.disk = dk /\ ~w.ok THEN NoPath
                                        ELSE original_file_path]

----------------------------------------------------------------------------
(* Bounds and the inputs of the model.                                     *)

\* files in the directory when the program starts
MaxFiles == 2
\* IVs a seal can draw
NumIVs == 2
\* batches run one after the other
MaxBatches == 1

IVs == 1..NumIVs

\* "pw", "x"
Pw1 == <<112, 119>>
Pw2 == <<120>>
Passwords == {Pw1, Pw2}
\* what can be typed at the password prompt: a password, or nothing
PasswordInputs == Passwords \cup {<<>>}
Keys == {generate_key_from_password(pw) : pw \in Passwords}
\* "k": not the base64 of 32 bytes
BadKey == <<107>>
KeyInputs == Keys \cup {BadKey}

\* "a", "data", "notes.t": the three lengths give the three padding cases
NameA == <<97>>
NameData == <<100, 97, 116, 97>>
NameNotes == <<110, 111, 116, 101, 115, 46, 116>>
Names == {NameA, NameData, NameNotes}

Contents == {<<>>, <<88, 200>>}

Entry(name, data, mode) ==
    [path |-> join(Cwd, name), data |-> data, mode |-> mode, isdir |-> FALSE]

\* the artifact encrypt_file writes for (name, data) under a password
ArtifactOf(name, data, pw, ivc, ivn) ==
    LET k == generate_key_from_password(pw)
    IN Entry(encrypt_filename(name, k, ivn).val \o KubliSuffix,
             FernetEncrypt(Fernet(k), data, ivc), "rw")

\* IVs of the artifacts that are on disk at the start (never drawn again)
OldIV1 == NumIVs + 1
OldIV2 == NumIVs + 2

\* "zz.kubli" holding "junk"
JunkArtifact == Entry(<<122, 122>> \o KubliSuffix, <<106, 117, 110, 107>>, "rw")

PlainEntries ==
    { Entry(NameA, <<88, 200>>, "rw"),
      Entry(NameA, <<88, 200>>, "none"),
      Entry(NameData, <<>>, "rw"),
      Entry(NameNotes, <<88, 200>>, "rw") }

\* two artifacts of "a" with different contents under "pw", one under "x",
\* and a file that is no artifact
ArtifactEntries ==
    { ArtifactOf(NameA, <<88, 200>>, Pw1, OldIV1, OldIV1),
      ArtifactOf(NameA, <<>>, Pw1, OldIV2, OldIV2),
      ArtifactOf(NameA, <<88, 200>>, Pw2, OldIV1, OldIV1),
      JunkArtifact }

InitEntries == PlainEntries \cup ArtifactEntries

DiskOf(S) ==
    [p \in {e.path : e \in S} |->
        LET e == CHOOSE x \in S : x.path = p
        IN [data |-> e.data, mode |-> e.mode, isdir |-> e.isdir]]

DisksUpTo(n) ==
    {DiskOf(S) : S \in {T \in SUBSET InitEntries :
                          /\ Cardinality(T) <= n
                          /\ \A x, y \in T : x.path = y.path => x = y}}

InitDisks == DisksUpTo(MaxFiles)

----------------------------------------------------------------------------
(* State.                                                                  *)

VARIABLES
    disk,        \* the file system
    diskFull,    \* no space left on the device
    usedIV,      \* IVs already drawn for a name
    call,        \* the last direct call of a function of src/utils
    prev,        \* the direct call before it
    impl,        \* "kubli": src/kubli.py run as a program; "utils": src/utils called
    pc,          \* position in main_menu / encrypt_directory / decrypt_directory
    mode,        \* "encrypt" or "decrypt"
    key,         \* key
    directory,   \* directory
    files,       \* files_to_encrypt / encrypted_files
    confirm,     \* confirm
    delete_confirm, \* delete_confirm
    idx,         \* candidates processed
    successful,  \* successful_encryptions / successful_decryptions
    ndel,        \* removals attempted
    asked,       \* the prompts asked by this batch, in order
    typed,       \* what was typed at its yes/no prompts, in order
    ending,      \* the message the batch ended with
    summary,     \* the count of the completion line, -1 while not printed
    start,       \* the disk when the batch started
    results,     \* what encrypt_file / decrypt_file returned, per candidate
    outputs,     \* what each of these calls wrote: [path, data]
    removed,     \* paths removed by this batch
    batches,     \* batches finished
    option,      \* option: the last input at the menu prompt
    log,         \* the batches that returned, in order
    preview      \* the lines of the candidate listing: the name shown, or none

apiVars == <<call, prev>>
batchVars == <<impl, pc, mode, key, directory, files, confirm, delete_confirm, idx,
               successful, ndel, asked, typed, ending, summary, start, results, outputs,
               removed, batches, option, log, preview>>
vars == <<disk, diskFull, usedIV, call, prev, impl, pc, mode, key, directory, files,
          confirm, delete_confirm, idx, successful, ndel, asked, typed, ending, summary,
          start, results, outputs, removed, batches, option, log, preview>>

\* no option read yet
NoOption == <<0>>

NoCall == [op |-> "none", arg |-> <<>>, key |-> <<>>, iv |-> 0, ok |-> FALSE,
           val |-> <<>>, before |-> <<>>]

IdleBatch ==
    /\ mode = "none"
    /\ key = <<>>
    /\ directory = <<>>
    /\ files = <<>>
    /\ confirm = <<>>
    /\ delete_confirm = <<>>
    /\ idx = 0
    /\ successful = <<>>
    /\ ndel = 0
    /\ asked = <<>>
    /\ typed = <<>>
    /\ ending = "none"
    /\ summary = -1
    /\ start = <<>>
    /\ results = <<>>
    /\ outputs = <<>>
    /\ removed = {}
    /\ preview = <<>>

----------------------------------------------------------------------------
(* The functions of src/utils called directly, as the tests call them: an  *)
(* encrypt call, then a decrypt call, or a decrypt call alone.             *)

ApiInit ==
    /\ disk \in DisksUpTo(1)
    /\ diskFull \in BOOLEAN
    /\ usedIV = {}
    /\ call = NoCall
    /\ prev = NoCall
    /\ impl = "utils"
    /\ pc = "Api"
    /\ IdleBatch
    /\ batches = 0
    /\ option = NoOption
    /\ log = <<>>

\* "d/gone": a path with no file
MissingPath == join(Cwd, <<103, 111, 110, 101>>)

PathInputs == DOMAIN disk \cup {MissingPath}

\* "invalid_encrypted_data" (test_decrypt_filename_with_invalid_data)
InvalidData == <<105, 110, 118, 97, 108, 105, 100, 95, 101, 110, 99, 114, 121, 112,
                 116, 101, 100, 95, 100, 97, 116, 97>>

\* strings handed to decrypt_filename: the name the last encrypt_filename
\* returned, that name with a character outside the alphabet ('!', '.')
\* added, with its last character cut, with its first character changed
NameInputs ==
    {InvalidData, <<>>}
    \cup (IF call.op = "encrypt_filename" /\ call.ok
          THEN { call.val,
                 Append(call.val, 33),
                 <<Head(call.val), DotChar>> \o Tail(call.val),
                 SubSeq(call.val, 1, Len(call.val) - 1),
                 <<B64Char((B64Val(Head(call.val)) + 1) % 64)>> \o Tail(call.val) }
          ELSE {})

Record(op, arg, k, iv, ok, val) ==
    /\ call' = [op |-> op, arg |-> arg, key |-> k, iv |-> iv, ok |-> ok, val |-> val,
                before |-> disk]
    /\ prev' = call

ApiEncryptFilename ==
    /\ pc = "Api" /\ call.op = "none"
    /\ \E name \in Names, k \in KeyInputs, iv \in IVs :
         \E r \in {encrypt_filename(name, k, iv)} :
            Record("encrypt_filename", name, k, iv, r.ok, r.val)
    /\ UNCHANGED <<disk, diskFull, usedIV, batchVars>>

ApiDecryptFilename ==
    /\ pc = "Api" /\ prev.op = "none"
    /\ \E s \in NameInputs, k \in KeyInputs :
         \E r \in {decrypt_filename(s, k)} :
            Record("decrypt_filename", s, k, 0, r.ok, r.val)
    /\ UNCHANGED <<disk, diskFull, usedIV, batchVars>>

ApiEncryptFile ==
    /\ pc = "Api" /\ call.op = "none"
    /\ \E p \in PathInputs, k \in KeyInputs, ivc \in IVs, ivn \in IVs \ usedIV :
         \E r \in {encrypt_file(disk, p, k, ivc, ivn, diskFull)} :
            /\ Record("encrypt_file", p, k, ivn, r.ok, r.out)
            /\ disk' = r.disk
            /\ usedIV' = usedIV \cup {ivn}
    /\ UNCHANGED <<diskFull, batchVars>>

ApiDecryptFile ==
    /\ pc = "Api" /\ prev.op = "none"
    /\ \E p \in PathInputs, k \in KeyInputs :
         \E r \in {decrypt_file(disk, p, k, diskFull)} :
            /\ Record("decrypt_file", p, k, 0, r.ok, r.out)
            /\ disk' = r.disk
    /\ UNCHANGED <<diskFull, usedIV, batchVars>>

\* generate_key_from_password(password), as the first or the second call
ApiGenerateKey ==
    /\ pc = "Api" /\ prev.op = "none"
    /\ \E password \in PasswordInputs :
         Record("generate_key_from_password", password, <<>>, 0, TRUE,
                generate_key_from_password(password))
    /\ UNCHANGED <<disk, diskFull, usedIV, batchVars>>

\* the test removes the original between encrypt_file and decrypt_file
ApiRemoveOriginal ==
    /\ pc = "Api"
    /\ call.op = "encrypt_file" /\ call.ok
    /\ isfile(disk, call.arg)
    /\ disk' = RemoveFile(disk, call.arg).disk
    /\ UNCHANGED <<diskFull, usedIV, apiVars, batchVars>>

\* the name token and the body token of "a" under a password
NameToken(pw, iv) == encrypt_filename(NameA, generate_key_from_password(pw), iv).val
BodyToken(pw) == FernetEncrypt(Fernet(generate_key_from_password(pw)), <<88, 200>>, OldIV1)

\* artifacts of which one half opens under "pw" and the other does not: the
\* body sealed under "x", the body cut short, the body no token, the name
\* no token; and the file "a" a decryption would write to
MixedEntries ==
    { Entry(NameToken(Pw1, OldIV1) \o KubliSuffix, BodyToken(Pw2), "rw"),
      Entry(NameToken(Pw1, OldIV2) \o KubliSuffix,
            SubSeq(BodyToken(Pw1), 1, Len(BodyToken(Pw1)) - 4), "rw"),
      Entry(NameToken(Pw2, OldIV1) \o KubliSuffix, <<106, 117, 110, 107>>, "rw"),
      Entry(<<122, 122>> \o KubliSuffix, BodyToken(Pw1), "rw"),
      Entry(NameA, <<7>>, "rw") }

\* decrypt_file called on such artifacts (test_decrypt_file_with_wrong_key)
MixedInit ==
    /\ disk \in {DiskOf(S) : S \in {T \in SUBSET MixedEntries : Cardinality(T) <= 2}}
    /\ diskFull \in BOOLEAN
    /\ usedIV = {}
    /\ call = NoCall
    /\ prev = NoCall
    /\ impl = "utils"
    /\ pc = "Api"
    /\ IdleBatch
    /\ batches = 0
    /\ option = NoOption
    /\ log = <<>>

ApiNext ==
    \/ ApiGenerateKey
    \/ ApiEncryptFilename
    \/ ApiDecryptFilename
    \/ ApiEncryptFile
    \/ ApiDecryptFile
    \/ ApiRemoveOriginal

ApiSpec == ApiInit /\ [][ApiNext]_vars

MixedSpec == MixedInit /\ [][ApiNext]_vars

----------------------------------------------------------------------------
(* The batches: encrypt_directory and decrypt_directory, of src/kubli.py   *)
(* when the program runs its menu (impl = "kubli") and of src/utils when   *)
(* they are called directly (impl = "utils").  pc is the position in the   *)
(* function: one action per input() and per iteration of its loops.       *)

\* "", " d", "nx" (no such directory)
DirectoryInputs == {<<>>, <<SpaceChar, 100>>, <<110, 120>>}

\* "y", "Y", "", "yes", " y"
AnswerInputs == {<<121>>, <<89>>, <<>>, <<121, 101, 115>>, <<SpaceChar, 121>>}

\* "1", "2", "3", "4", ""
OptionEncrypt == <<49>>
OptionDecrypt == <<50>>
OptionExit == <<51>>
OptionInputs == {OptionEncrypt, OptionDecrypt, OptionExit, <<52>>, <<>>}

Init ==
    /\ disk \in InitDisks
    /\ diskFull \in BOOLEAN
    /\ usedIV = {}
    /\ call = NoCall
    /\ prev = NoCall
    /\ impl \in {"kubli", "utils"}
    /\ pc = IF impl = "kubli" THEN "Menu" ELSE "Test"
    /\ IdleBatch
    /\ batches = 0
    /\ option = NoOption
    /\ log = <<>>

StartBatch(m) ==
    /\ batches < MaxBatches
    /\ pc' = "CollectingInput"
    /\ mode' = m
    /\ start' = disk
    /\ ending' = "none"
    /\ UNCHANGED <<disk, diskFull, usedIV, apiVars, impl, key, directory, files, confirm,
                   delete_confirm, idx, successful, ndel, asked, typed, summary, results,
                   outputs, removed, batches, log, preview>>

\* main_menu, option "1"
MenuEncrypt ==
    /\ pc = "Menu" /\ OptionEncrypt \in OptionInputs
    /\ option' = OptionEncrypt
    /\ StartBatch("encrypt")

\* main_menu, option "2"
MenuDecrypt ==
    /\ pc = "Menu" /\ OptionDecrypt \in OptionInputs
    /\ option' = OptionDecrypt
    /\ StartBatch("decrypt")

\* main_menu, option "3"
MenuExit ==
    /\ pc = "Menu" /\ OptionExit \in OptionInputs
    /\ option' = OptionExit
    /\ pc' = "Exited"
    /\ ending' = "goodbye"
    /\ UNCHANGED <<disk, diskFull, usedIV, apiVars, impl, mode, key, directory, files,
                   confirm, delete_confirm, idx, successful, ndel, asked, typed, summary,
                   start, results, outputs, removed, batches, log, preview>>

\* main_menu whose else branch falls into encrypt_directory()
MenuInvalid_encrypting ==
    /\ pc = "Menu"
    /\ \E opt \in OptionInputs \ {OptionEncrypt, OptionDecrypt, OptionExit} :
         option' = opt
    /\ StartBatch("encrypt")

\* main_menu, any other option
MenuInvalid ==
    /\ pc = "Menu"
    /\ \E opt \in OptionInputs \ {OptionEncrypt, OptionDecrypt, OptionExit} :
         /\ option' = opt
         /\ ending' = "invalid_option"
    /\ UNCHANGED <<disk, diskFull, usedIV, apiVars, impl, pc, mode, key, directory, files,
                   confirm, delete_confirm, idx, successful, ndel, asked, typed, summary,
                   start, results, outputs, removed, batches, log, preview>>

\* encrypt_directory() / decrypt_directory() of src/utils called by a test
TestCall ==
    /\ pc = "Test"
    /\ option' = option
    /\ \E m \in {"encrypt", "decrypt"} : StartBatch(m)

\* password = input(...); if not password: return
EnterPassword ==
    /\ pc = "CollectingInput"
    /\ \E password \in PasswordInputs :
         /\ asked' = Append(asked, "password")
         /\ IF password = <<>>
            THEN /\ ending' = "empty_password"
                 /\ pc' = "Done"
                 /\ key' = key
            ELSE /\ key' = generate_key_from_password(password)
                 /\ pc' = "CollectingDirectory"
                 /\ ending' = ending
    /\ UNCHANGED <<disk, diskFull, usedIV, apiVars, impl, mode, directory, files, confirm,
                   delete_confirm, idx, successful, ndel, typed, summary, start, results,
                   outputs, removed, batches, option, log, preview>>

\* directory = input(...).strip(), the working directory when empty;
\* if not os.path.exists(directory): return
EnterDirectory ==
    /\ pc = "CollectingDirectory"
    /\ \E d \in DirectoryInputs :
         LET dir == IF Strip(d) = <<>> THEN Cwd ELSE Strip(d)
         IN /\ asked' = Append(asked, "directory")
            /\ directory' = dir
            /\ IF exists(disk, dir)
               THEN pc' = "Scanning" /\ ending' = ending
               ELSE pc' = "Done" /\ ending' = "no_directory"
    /\ UNCHANGED <<disk, diskFull, usedIV, apiVars, impl, mode, key, files, confirm,
                   delete_confirm, idx, successful, ndel, typed, summary, start, results,
                   outputs, removed, batches, option, log, preview>>

\* glob.glob(os.path.join(dir, "*")): the entries of dir, hidden ones left out
GlobAll(dk, dir) ==
    {p \in DOMAIN dk : dirname(p) = dir /\ Head(basename(p)) # DotChar}

\* glob.glob(os.path.join(dir, "*.kubli"))
GlobKubli(dk, dir) == {p \in GlobAll(dk, dir) : EndsWith(basename(p), KubliSuffix)}

\* the filter of encrypt_directory; src/utils also leaves out "*.py"
EncryptCandidates(dk, dir, im) ==
    {p \in GlobAll(dk, dir) :
        /\ isfile(dk, p)
        /\ ~EndsWith(p, KubliSuffix)
        /\ basename(p) # ScriptName
        /\ (im = "utils" => ~EndsWith(basename(p), PySuffix))}

\* the artifacts whose name does not open under the key left out of the
\* candidates
Candidates_previewable(dk, dir, m, im) ==
    IF m = "encrypt" THEN EncryptCandidates(dk, dir, im)
    ELSE {p \in GlobKubli(dk, dir) :
            decrypt_filename(Replace(basename(p), KubliSuffix, <<>>), key).ok}

Candidates(dk, dir, m, im) ==
    IF m = "encrypt" THEN EncryptCandidates(dk, dir, im) ELSE GlobKubli(dk, dir)

\* the listing of the candidates: print(os.path.basename(file_path)) for
\* encryption; for decryption original_filename = decrypt_filename(...) and
\* `if original_filename:` shows it, else "(filename decryption failed)"
Listing(list, m, k) ==
    [i \in 1..Len(list) |->
        IF m = "encrypt" THEN [ok |-> TRUE, val |-> basename(list[i])]
        ELSE With(decrypt_filename(Replace(basename(list[i]), KubliSuffix, <<>>), k),
                  LAMBDA r : IF r.ok /\ r.val # <<>> THEN r ELSE None)]

\* the orders in which glob can list a set of paths
Orders(S) ==
    {f \in [1..Cardinality(S) -> S] : \A i, j \in 1..Cardinality(S) : f[i] = f[j] => i = j}

\* if not files_to_encrypt: return, taken for every list
AfterScan_unchecked(list) == "AwaitingConfirmation"

\* the candidates transformed without the question "Proceed?"
AfterScan_proceeding(list) == IF list = <<>> THEN "Done" ELSE "Processing"

\* if not files_to_encrypt: return
AfterScan(list) == IF list = <<>> THEN "Done" ELSE "AwaitingConfirmation"

Scan ==
    /\ pc = "Scanning"
    /\ \E list \in Orders(Candidates(disk, directory, mode, impl)) :
         /\ files' = list
         /\ preview' = Listing(list, mode, key)
         /\ pc' = AfterScan(list)
         /\ ending' = IF pc' = "Done" THEN "no_files" ELSE ending
    /\ UNCHANGED <<disk, diskFull, usedIV, apiVars, impl, mode, key, directory, confirm,
                   delete_confirm, idx, successful, ndel, asked, typed, summary, start,
                   results, outputs, removed, batches, option, log>>

\* confirm != "y" fails, taken for every answer that begins with y
Affirmative_prefix(answer) == answer # <<>> /\ Head(answer) = Head(Yes)

\* the answer compared after .strip()
Affirmative_stripped(answer) == Strip(answer) = Yes

\* confirm != "y" fails
Affirmative(answer) == answer = Yes

\* confirm = input(...).lower(); if confirm != "y": return
Confirm ==
    /\ pc = "AwaitingConfirmation"
    /\ \E answer \in AnswerInputs :
         /\ asked' = Append(asked, "proceed")
         /\ typed' = Append(typed, answer)
         /\ confirm' = Lower(answer)
         /\ IF Affirmative(confirm')
            THEN pc' = "Processing" /\ ending' = ending
            ELSE pc' = "Done" /\ ending' = "cancelled"
    /\ UNCHANGED <<disk, diskFull, usedIV, apiVars, impl, mode, key, directory, files,
                   delete_confirm, idx, successful, ndel, summary, start, results, outputs,
                   removed, batches, option, log, preview>>

\* the call of the loop, removing the source right after it
Transform_moving(dk, m, file_path, k, ivc, ivn, full) ==
    LET r == IF m = "encrypt" THEN encrypt_file(dk, file_path, k, ivc, ivn, full)
             ELSE decrypt_file(dk, file_path, k, full)
    IN [r EXCEPT !.disk = RemoveFile(r.disk, file_path).disk]

\* encrypt_file(file_path, key) / decrypt_file(file_path, key) in the loop
Transform(dk, m, file_path, k, ivc, ivn, full) ==
    IF m = "encrypt" THEN encrypt_file(dk, file_path, k, ivc, ivn, full)
    ELSE decrypt_file(dk, file_path, k, full)

\* the loop left at the first failure
AfterCandidate_aborting(ok, last, anySuccess) ==
    IF ~last /\ ok THEN "Processing"
    ELSE IF anySuccess THEN "AwaitingDeleteConfirmation"
    ELSE "Done"

\* the delete question asked as soon as one candidate succeeded
AfterCandidate_asking_early(ok, last, anySuccess) ==
    IF anySuccess THEN "AwaitingDeleteConfirmation"
    ELSE IF ~last THEN "Processing"
    ELSE "Done"

\* for file_path in files: ...; if successful: ask
AfterCandidate(ok, last, anySuccess) ==
    IF ~last THEN "Processing"
    ELSE IF anySuccess THEN "AwaitingDeleteConfirmation"
    ELSE "Done"

\* the completion line counting the candidates
FinalCount_candidates(list) == Len(files)

\* len(successful_encryptions) / len(successful_decryptions) of the
\* completion line
FinalCount(list) == Len(list)

\* a loop that goes through its list from the end
NextCandidate_reversed(list, n) == list[Len(list) - n]

\* for file_path in list: the element of the iteration after n iterations
NextCandidate(list, n) == list[n + 1]

\* the IVs Fernet.encrypt can draw; decrypt_file draws none
DrawIVs(m, pool) == IF m = "encrypt" THEN pool ELSE {0}

\* one iteration of the loop over the candidates
ProcessOne ==
    /\ pc = "Processing"
    /\ idx < Len(files)
    /\ \E ivc \in DrawIVs(mode, IVs), ivn \in DrawIVs(mode, IVs \ usedIV) :
       \E r \in {Transform(disk, mode, NextCandidate(files, idx), key, ivc, ivn, diskFull)} :
         LET file_path == NextCandidate(files, idx)
             succ == IF r.ok THEN Append(successful, file_path) ELSE successful
         IN /\ disk' = r.disk
            /\ usedIV' = IF mode = "encrypt" THEN usedIV \cup {ivn} ELSE usedIV
            /\ results' = Append(results, r.ok)
            /\ outputs' = Append(outputs,
                                 [path |-> r.out,
                                  data |-> IF r.out = NoPath THEN <<>> ELSE r.disk[r.out].data])
            /\ successful' = succ
            /\ idx' = idx + 1
            /\ pc' = AfterCandidate(r.ok, idx + 1 = Len(files), succ # <<>>)
            /\ summary' = IF pc' = "Done" THEN FinalCount(succ) ELSE summary
            /\ ending' = IF pc' = "Done" THEN "complete" ELSE ending
    /\ UNCHANGED <<diskFull, apiVars, impl, mode, key, directory, files, confirm,
                   delete_confirm, ndel, asked, typed, start, removed, batches, option, log, preview>>

\* for file_path in files_to_encrypt: os.remove(file_path)
ToDelete_all == files

\* for file_path in successful_encryptions: os.remove(file_path)
ToDelete == successful

\* delete_confirm = input(...).lower(); if delete_confirm == "y": ...
ConfirmDelete ==
    /\ pc = "AwaitingDeleteConfirmation"
    /\ \E answer \in AnswerInputs :
         /\ asked' = Append(asked, "delete")
         /\ typed' = Append(typed, answer)
         /\ delete_confirm' = Lower(answer)
         /\ IF Affirmative(delete_confirm') /\ ToDelete # <<>>
            THEN pc' = "Deleting" /\ ending' = ending /\ summary' = summary
            ELSE pc' = "Done" /\ ending' = "complete" /\ summary' = FinalCount(successful)
    /\ UNCHANGED <<disk, diskFull, usedIV, apiVars, impl, mode, key, directory, files,
                   confirm, idx, successful, ndel, start, results, outputs, removed,
                   batches, option, log, preview>>

\* the loop of removals left at the first os.remove that raises
DeleteOne_aborting ==
    /\ pc = "Deleting"
    /\ ndel < Len(ToDelete)
    /\ LET file_path == NextCandidate(ToDelete, ndel)
           r == RemoveFile(disk, file_path)
       IN /\ disk' = r.disk
          /\ removed' = IF r.ok THEN removed \cup {file_path} ELSE removed
          /\ ndel' = ndel + 1
          /\ IF ndel + 1 = Len(ToDelete) \/ ~r.ok
             THEN pc' = "Done" /\ ending' = "complete" /\ summary' = FinalCount(successful)
             ELSE pc' = pc /\ ending' = ending /\ summary' = summary
    /\ UNCHANGED <<diskFull, usedIV, apiVars, impl, mode, key, directory, files, confirm,
                   delete_confirm, idx, successful, asked, typed, start, results, outputs,
                   batches, option, log, preview>>

\* one iteration of the loop of removals: try: os.remove(file_path)
DeleteOne ==
    /\ pc = "Deleting"
    /\ ndel < Len(ToDelete)
    /\ LET file_path == NextCandidate(ToDelete, ndel)
           r == RemoveFile(disk, file_path)
       IN /\ disk' = r.disk
          /\ removed' = IF r.ok THEN removed \cup {file_path} ELSE removed
          /\ ndel' = ndel + 1
          /\ IF ndel + 1 = Len(ToDelete)
             THEN pc' = "Done" /\ ending' = "complete" /\ summary' = FinalCount(successful)
             ELSE pc' = pc /\ ending' = ending /\ summary' = summary
    /\ UNCHANGED <<diskFull, usedIV, apiVars, impl, mode, key, directory, files, confirm,
                   delete_confirm, idx, successful, asked, typed, start, results, outputs,
                   batches, option, log, preview>>

\* main_menu that leaves its loop after a batch
Return_leaving ==
    /\ pc = "Done"
    /\ pc' = IF impl = "kubli" THEN "Exited" ELSE "Test"
    /\ batches' = batches + 1
    /\ log' = Append(log, [mode |-> mode, key |-> key, directory |-> directory,
                            typed |-> typed, ending |-> ending, start |-> start])
    /\ UNCHANGED <<disk, diskFull, usedIV, apiVars, impl, option, mode, key, directory,
                   files, confirm, delete_confirm, idx, successful, ndel, asked, typed,
                   ending, summary, start, results, outputs, removed, preview>>

\* the function returns to main_menu, or to the test
Return ==
    /\ pc = "Done"
    /\ pc' = IF impl = "kubli" THEN "Menu" ELSE "Test"
    /\ batches' = batches + 1
    /\ mode' = "none"
    /\ key' = <<>>
    /\ directory' = <<>>
    /\ files' = <<>>
    /\ confirm' = <<>>
    /\ delete_confirm' = <<>>
    /\ idx' = 0
    /\ successful' = <<>>
    /\ ndel' = 0
    /\ asked' = <<>>
    /\ typed' = <<>>
    /\ ending' = "none"
    /\ summary' = -1
    /\ start' = <<>>
    /\ results' = <<>>
    /\ outputs' = <<>>
    /\ removed' = {}
    /\ preview' = <<>>
    /\ log' = Append(log, [mode |-> mode, key |-> key, directory |-> directory,
                            typed |-> typed, ending |-> ending, start |-> start])
    /\ UNCHANGED <<disk, diskFull, usedIV, apiVars, impl, option>>

Next ==
    \/ MenuEncrypt
    \/ MenuDecrypt
    \/ MenuExit
    \/ MenuInvalid
    \/ TestCall
    \/ EnterPassword
    \/ EnterDirectory
    \/ Scan
    \/ Confirm
    \/ ProcessOne
    \/ ConfirmDelete
    \/ DeleteOne
    \/ Return

Spec == Init /\ [][Next]_vars

\* test_full_encryption_decryption_workflow: a directory that holds no
\* artifact, and room for two batches in a row
RoundTripInit ==
    /\ disk \in {dk \in InitDisks : \A p \in DOMAIN dk : ~EndsWith(p, KubliSuffix)}
    /\ diskFull \in BOOLEAN
    /\ usedIV = {}
    /\ call = NoCall
    /\ prev = NoCall
    /\ impl \in {"kubli", "utils"}
    /\ pc = IF impl = "kubli" THEN "Menu" ELSE "Test"
    /\ IdleBatch
    /\ batches = MaxBatches - 2
    /\ option = NoOption
    /\ log = <<>>

\* the batches are started by options "1" and "2" of the menu, or by a test
RoundTripNext ==
    \/ MenuEncrypt
    \/ MenuDecrypt
    \/ TestCall
    \/ EnterPassword
    \/ EnterDirectory
    \/ Scan
    \/ Confirm
    \/ ProcessOne
    \/ ConfirmDelete
    \/ DeleteOne
    \/ Return

RoundTripSpec == RoundTripInit /\ [][RoundTripNext]_vars

\* "run_tests.py": the test runner kept next to kubli.py
RunTestsName == <<114, 117, 110, 95, 116, 101, 115, 116, 115, 46, 112, 121>>

\* the files of the program in the directory of kubli.py
SourceFiles == {ScriptName, RunTestsName}

\* ".h": a hidden file
HiddenName == <<DotChar, 104>>

\* "sub": a directory
SubName == <<115, 117, 98>>

EntryDir(name) == [path |-> join(Cwd, name), data |-> <<>>, mode |-> "rw", isdir |-> TRUE]

\* the entries a scanned directory can hold: a plain file, a hidden file,
\* kubli.py, run_tests.py, a directory, a file in that directory, an
\* artifact, a hidden artifact ".z.kubli", a directory "k.kubli", an
\* artifact in the directory
ScanEntries ==
    { Entry(NameA, <<88, 200>>, "rw"),
      Entry(HiddenName, <<88, 200>>, "rw"),
      Entry(ScriptName, <<88, 200>>, "rw"),
      Entry(RunTestsName, <<88, 200>>, "rw"),
      EntryDir(SubName),
      Entry(SubName \o <<SlashChar, 120>>, <<88, 200>>, "rw"),
      JunkArtifact,
      Entry(<<DotChar, 122>> \o KubliSuffix, <<106, 117, 110, 107>>, "rw"),
      EntryDir(<<107>> \o KubliSuffix),
      Entry(SubName \o <<SlashChar, 121>> \o KubliSuffix, <<106, 117, 110, 107>>, "rw") }

\* a file is in a directory that exists
ScanDisks ==
    {DiskOf(S) : S \in {T \in SUBSET ScanEntries :
                          /\ Cardinality(T) <= MaxFiles
                          /\ \A x \in T : dirname(x.path) = Cwd
                                            \/ \E y \in T : y.isdir /\ y.path = dirname(x.path)}}

ScanInit ==
    /\ disk \in ScanDisks
    /\ diskFull \in BOOLEAN
    /\ usedIV = {}
    /\ call = NoCall
    /\ prev = NoCall
    /\ impl \in {"kubli", "utils"}
    /\ pc = IF impl = "kubli" THEN "Menu" ELSE "Test"
    /\ IdleBatch
    /\ batches = 0
    /\ option = NoOption
    /\ log = <<>>

\* a batch up to the listing of its candidates
ScanNext ==
    \/ MenuEncrypt
    \/ MenuDecrypt
    \/ TestCall
    \/ EnterPassword
    \/ EnterDirectory
    \/ Scan

ScanSpec == ScanInit /\ [][ScanNext]_vars

\* names a holder of the password can seal with encrypt_filename: "sub/x",
\* "../x", "/x"
NameInSub == <<115, 117, 98, SlashChar, 120>>
NameInParent == <<DotChar, DotChar, SlashChar, 120>>
NameAbsolute == <<SlashChar, 120>>
SeparatorNames == {NameInSub, NameInParent, NameAbsolute}

\* the directories names with separators lead to: "d/sub", "d/.." and "/"
OtherDirs ==
    { EntryDir(SubName),
      EntryDir(<<DotChar, DotChar>>),
      [path |-> <<SlashChar>>, data |-> <<>>, mode |-> "rw", isdir |-> TRUE] }

\* artifacts under "pw" whose name token holds such a name, and one of "a"
CraftedEntries ==
    {ArtifactOf(name, <<88, 200>>, Pw1, OldIV1, OldIV1) : name \in SeparatorNames \cup {NameA}}

\* decrypt_file called on artifacts that were not made by encrypt_file
CraftedInit ==
    /\ disk \in {DiskOf(OtherDirs \cup S) :
                    S \in {T \in SUBSET CraftedEntries : Cardinality(T) \in 1..2}}
    /\ diskFull \in BOOLEAN
    /\ usedIV = {}
    /\ call = NoCall
    /\ prev = NoCall
    /\ impl = "utils"
    /\ pc = "Api"
    /\ IdleBatch
    /\ batches = 0
    /\ option = NoOption
    /\ log = <<>>

CraftedSpec == CraftedInit /\ [][ApiNext]_vars

\* kubli.py run as a program on a directory of at most one file, for one
\* batch; every prompt is answered and every loop goes on
LiveInit ==
    /\ disk \in DisksUpTo(1)
    /\ diskFull \in BOOLEAN
    /\ usedIV = {}
    /\ call = NoCall
    /\ prev = NoCall
    /\ impl = "kubli"
    /\ pc = "Menu"
    /\ IdleBatch
    /\ batches = MaxBatches - 1
    /\ option = NoOption
    /\ log = <<>>

\* a step of encrypt_directory() / decrypt_directory() outside the loop over
\* the candidates
PromptStep ==
    \/ EnterPassword
    \/ EnterDirectory
    \/ Scan
    \/ Confirm
    \/ ConfirmDelete
    \/ DeleteOne
    \/ Return

\* a step of encrypt_directory() / decrypt_directory()
BatchStep ==
    \/ PromptStep
    \/ ProcessOne

LiveNext ==
    \/ MenuEncrypt
    \/ MenuDecrypt
    \/ MenuExit
    \/ MenuInvalid
    \/ BatchStep

\* the loop over the candidates has a candidate left and Fernet has an IV to
\* draw: ENABLED <<ProcessOne>>_vars, written out
ProcessOneEnabled ==
    /\ pc = "Processing"
    /\ idx < Len(files)
    /\ DrawIVs(mode, IVs) # {}
    /\ DrawIVs(mode, IVs \ usedIV) # {}

\* a batch that was started runs on: the interpreter executes the next
\* statement of a function it is in (weak fairness of every batch step; for
\* the loop body it is stated with ProcessOneEnabled)
LiveSpec ==
    /\ LiveInit
    /\ [][LiveNext]_vars
    /\ WF_vars(PromptStep)
    /\ ([]<>(~ProcessOneEnabled) \/ []<><<ProcessOne>>_vars)

\* files the process can read and cannot remove, beside files it can remove
LockedEntries ==
    { Entry(NameA, <<88, 200>>, "locked"),
      Entry(NameData, <<>>, "rw"),
      Entry(NameNotes, <<88, 200>>, "locked"),
      [ArtifactOf(NameA, <<88, 200>>, Pw1, OldIV1, OldIV1) EXCEPT !.mode = "locked"],
      ArtifactOf(NameData, <<>>, Pw1, OldIV2, OldIV2),
      JunkArtifact }

\* a directory in which os.remove can raise
DeleteInit ==
    /\ disk \in {DiskOf(S) : S \in {T \in SUBSET LockedEntries : Cardinality(T) <= MaxFiles}}
    /\ diskFull \in BOOLEAN
    /\ usedIV = {}
    /\ call = NoCall
    /\ prev = NoCall
    /\ impl \in {"kubli", "utils"}
    /\ pc = IF impl = "kubli" THEN "Menu" ELSE "Test"
    /\ IdleBatch
    /\ batches = 0
    /\ option = NoOption
    /\ log = <<>>

DeleteSpec == DeleteInit /\ [][Next]_vars

\* an artifact whose name holds ".kubli" twice (a copy made by appending the
\* suffix to the name of the artifact of "data", whose encoded name has no
\* padding), beside artifacts and files as they are made
DoubledArtifact ==
    [ArtifactOf(NameData, <<88, 200>>, Pw1, OldIV1, OldIV1) EXCEPT
        !.path = ArtifactOf(NameData, <<88, 200>>, Pw1, OldIV1, OldIV1).path \o KubliSuffix]

DoubledEntries ==
    { DoubledArtifact,
      ArtifactOf(NameA, <<>>, Pw1, OldIV2, OldIV2),
      Entry(NameA, <<88, 200>>, "rw"),
      Entry(NameNotes, <<88, 200>>, "rw"),
      JunkArtifact }

\* a directory that can hold the doubled artifact
DoubledInit ==
    /\ disk \in {DiskOf(S) : S \in {T \in SUBSET DoubledEntries : Cardinality(T) <= MaxFiles}}
    /\ diskFull \in BOOLEAN
    /\ usedIV = {}
    /\ call = NoCall
    /\ prev = NoCall
    /\ impl \in {"kubli", "utils"}
    /\ pc = IF impl = "kubli" THEN "Menu" ELSE "Test"
    /\ IdleBatch
    /\ batches = 0
    /\ option = NoOption
    /\ log = <<>>

DoubledSpec == DoubledInit /\ [][Next]_vars

InBatch == pc \notin {"Menu", "Test", "Exited", "Api"}

----------------------------------------------------------------------------
(* Properties of the functions called directly (ApiSpec).                  *)

\* the decrypt call follows the encrypt call and is given what it returned
DecryptsLastEncryptFile ==
    /\ call.op = "decrypt_file" /\ prev.op = "encrypt_file" /\ prev.ok
    /\ call.arg = prev.val

\* C1: encrypt_file on an ordinary file with the key of a password, then
\* decrypt_file on the artifact it wrote with the same key, both return True,
\* and a file with the original path (same directory, same name) holds the
\* original bytes.
FileRoundTrip ==
    /\ (/\ call.op = "encrypt_file" /\ call.key \in Keys /\ ~diskFull
        /\ isfile(call.before, call.arg) /\ call.before[call.arg].mode = "rw")
       => /\ call.ok
          /\ dirname(call.val) = dirname(call.arg)
    /\ (/\ DecryptsLastEncryptFile /\ call.key = prev.key
        /\ prev.before[prev.arg].mode = "rw")
       => /\ call.ok
          /\ call.val = prev.arg
          /\ isfile(disk, prev.arg)
          /\ disk[prev.arg].data = prev.before[prev.arg].data

\* the round trip of a 0-byte file whose original was removed in between
FileRoundTripWitness ==
    /\ DecryptsLastEncryptFile /\ call.key = prev.key /\ call.ok
    /\ ~isfile(call.before, prev.arg)
    /\ isfile(disk, prev.arg) /\ disk[prev.arg].data = <<>>

\* C2: decrypt_file with the key of another password on an artifact written
\* by encrypt_file returns False and leaves the disk as it was: nothing
\* written, nothing removed.
WrongKeyRejected ==
    (/\ DecryptsLastEncryptFile
     /\ call.key \in Keys /\ prev.key \in Keys /\ call.key # prev.key)
    => /\ ~call.ok
       /\ disk = call.before

WrongKeyRejectedWitness ==
    /\ DecryptsLastEncryptFile
    /\ call.key \in Keys /\ prev.key \in Keys /\ call.key # prev.key
    /\ ~call.ok
    /\ ~isfile(disk, prev.arg)

\* decode_name: '_' back to '=', then URL-safe base64 decoding
decode_name(s) == urlsafe_b64decode(Replace(s, <<UnderscoreChar>>, <<PadChar>>))

\* C8: decoding the name encrypt_filename returned gives back the token the
\* cipher sealed, and decrypt_filename on that name with the same key gives
\* back the filename.
NameRoundTrip ==
    /\ (call.op = "encrypt_filename" /\ call.ok)
       => decode_name(call.val) =
            [ok |-> TRUE, val |-> FernetEncrypt(Fernet(call.key), call.arg, call.iv)]
    /\ (/\ call.op = "decrypt_filename" /\ prev.op = "encrypt_filename" /\ prev.ok
        /\ call.arg = prev.val /\ call.key = prev.key)
       => (call.ok /\ call.val = prev.arg)

\* the round trip of a name whose encoding ends in two padding characters
NameRoundTripWitness ==
    /\ call.op = "decrypt_filename" /\ prev.op = "encrypt_filename" /\ prev.ok
    /\ call.arg = prev.val /\ call.key = prev.key
    /\ call.ok /\ call.val = NameNotes
    /\ SubSeq(call.arg, Len(call.arg) - 1, Len(call.arg)) = <<UnderscoreChar, UnderscoreChar>>

IsLetterOrDigit(c) ==
    \/ (c >= 65 /\ c <= 90)
    \/ (c >= 97 /\ c <= 122)
    \/ (c >= 48 /\ c <= 57)

\* C9: the name encrypt_filename returns has no '=' and is made of ASCII
\* letters, digits, '_' and '-' only.
EncodedNameSafe ==
    (call.op = "encrypt_filename" /\ call.ok)
    => \A i \in 1..Len(call.val) :
          /\ call.val[i] # PadChar
          /\ (IsLetterOrDigit(call.val[i]) \/ call.val[i] = UnderscoreChar
              \/ call.val[i] = 45)

\* an encoded name in which padding was replaced
EncodedNameSafeWitness ==
    /\ call.op = "encrypt_filename" /\ call.ok
    /\ call.val # <<>>
    /\ call.val[Len(call.val)] = UnderscoreChar

\* a string over the URL-safe alphabet with '_' for padding, whole quanta
ValidEncodedName(s) ==
    /\ Len(s) % 4 = 0
    /\ \A i \in 1..Len(s) :
          IsLetterOrDigit(s[i]) \/ s[i] = UnderscoreChar \/ s[i] = 45

\* C10: decrypt_filename returns None for every string that is not valid
\* under the substitution and the URL-safe alphabet and for every name sealed
\* under another key; it returns a filename only for a validly encoded token.
DecodeRejectsInvalid ==
    /\ (call.op = "decrypt_filename" /\ ~ValidEncodedName(call.arg)) => ~call.ok
    /\ (/\ call.op = "decrypt_filename" /\ prev.op = "encrypt_filename" /\ prev.ok
        /\ call.arg = prev.val /\ call.key # prev.key)
       => ~call.ok

----------------------------------------------------------------------------
(* Properties of the batches (Spec).                                       *)

\* "y" or "Y" was typed at the n-th yes/no prompt of the batch
TypedYes(n) == Len(typed) >= n /\ typed[n] \in {<<121>>, <<89>>}

\* C3: when the answer to the 'Proceed' prompt is anything but 'y' or 'Y',
\* the batch ends without a call of encrypt_file / decrypt_file and the
\* directory is exactly what it was when the batch started.
CancelNoEffect ==
    (InBatch /\ typed # <<>> /\ ~TypedYes(1))
    => /\ pc = "Done" /\ ending = "cancelled"
       /\ idx = 0 /\ results = <<>> /\ outputs = <<>> /\ removed = {}
       /\ disk = start

\* a decrypt batch cancelled by the answer "yes"
CancelNoEffectWitness ==
    /\ pc = "Done" /\ ending = "cancelled" /\ mode = "decrypt"
    /\ typed = << <<121, 101, 115>> >>
    /\ files # <<>>

\* the last call of the batch so far that opened path p for writing
LastWrite(p) ==
    CHOOSE j \in 1..Len(outputs) :
        /\ outputs[j].path = p
        /\ \A k \in 1..Len(outputs) : outputs[k].path = p => k <= j

\* C4 as claimed: in every state of a batch, each candidate's source is on
\* disk, or the output its transform wrote is on disk with the content that
\* transform wrote.
WriteBeforeRemoveOwnContent ==
    InBatch =>
      \A i \in 1..Len(files) :
         \/ isfile(disk, files[i])
         \/ /\ i <= Len(results) /\ results[i]
            /\ isfile(disk, outputs[i].path)
            /\ disk[outputs[i].path].data = outputs[i].data

\* C4, amended: in every state of a batch, each candidate's source is on
\* disk, or its transform returned True and the file it wrote is on disk
\* with the content written by the last transform of the batch that wrote
\* to that path.
WriteBeforeRemove ==
    InBatch =>
      \A i \in 1..Len(files) :
         \/ isfile(disk, files[i])
         \/ /\ i <= Len(results) /\ results[i]
            /\ isfile(disk, outputs[i].path)
            /\ disk[outputs[i].path].data = outputs[LastWrite(outputs[i].path)].data

\* a removed artifact whose output was overwritten by a later candidate
WriteBeforeRemoveWitness ==
    /\ pc = "Done" /\ mode = "decrypt"
    /\ \E i \in 1..Len(results) :
          /\ ~isfile(disk, files[i]) /\ results[i]
          /\ LastWrite(outputs[i].path) # i
          /\ disk[outputs[i].path].data # outputs[i].data

\* C5: a batch removes a file only if it is a candidate whose call returned
\* True in this batch and the delete prompt was answered 'y' or 'Y'; sources
\* of failed candidates, files that are no candidates and the files the
\* batch wrote stay.
RemovedOnlyConfirmed ==
    InBatch =>
      /\ \A p \in (DOMAIN start \ DOMAIN disk) \cup removed :
            /\ TypedYes(2)
            /\ \E i \in 1..Len(results) : files[i] = p /\ results[i]
      /\ \A i \in 1..Len(results) : ~results[i] => files[i] \in DOMAIN disk
      /\ \A p \in DOMAIN start : p \notin Range(files) => p \in DOMAIN disk
      /\ \A i \in 1..Len(outputs) :
            outputs[i].path # NoPath => outputs[i].path \in DOMAIN disk

\* a batch that removed a source and kept the source of a failed candidate
RemovedOnlyConfirmedWitness ==
    /\ pc = "Done" /\ removed # {}
    /\ \E i \in 1..Len(results) : ~results[i] /\ isfile(disk, files[i])

\* candidate i can be transformed: its source can be read and, for an
\* artifact, opens under the key of the batch, and its output can be written
Transformable(i) ==
    IF mode = "encrypt" THEN ReadFile(start, files[i]).ok /\ ~diskFull
    ELSE decrypt_file(start, files[i], key, diskFull).ok

\* C6: a batch that passed the confirmation processes every candidate; when
\* exactly one candidate cannot be transformed, every other one succeeds and
\* the summary reports N - 1.
PartialFailureIsolation ==
    (pc = "Done" /\ ending = "complete")
    => /\ Len(results) = Len(files)
       /\ summary = Cardinality({i \in 1..Len(results) : results[i]})
       /\ Cardinality({i \in 1..Len(files) : ~Transformable(i)}) = 1
          => /\ summary = Len(files) - 1
             /\ \A i \in 1..Len(files) : results[i] = Transformable(i)

\* an encrypt batch whose first candidate is unreadable and whose second
\* succeeds
PartialFailureIsolationWitness ==
    /\ pc = "Done" /\ ending = "complete" /\ mode = "encrypt"
    /\ Len(files) >= 2
    /\ ~ReadFile(start, files[1]).ok
    /\ results[1] = FALSE /\ results[2] = TRUE
    /\ summary = Len(files) - 1

\* C7: a batch that ends on an empty password, a missing directory or an
\* empty candidate set has called neither encrypt_file nor decrypt_file,
\* removed nothing, asked neither yes/no prompt and printed no summary; the
\* empty password ends it before the directory is asked; no batch gets to
\* the 'Proceed' prompt under one of these conditions.
TerminalNoTouch ==
    /\ (pc = "Done" /\ ending \in {"empty_password", "no_directory", "no_files"})
       => /\ disk = start
          /\ idx = 0 /\ results = <<>> /\ outputs = <<>> /\ removed = {}
          /\ typed = <<>>
          /\ "proceed" \notin Range(asked) /\ "delete" \notin Range(asked)
          /\ summary = -1
    /\ ending = "empty_password" => asked = <<"password">>
    /\ (InBatch /\ pc \notin {"CollectingInput", "CollectingDirectory", "Scanning"}
        /\ ending \notin {"empty_password", "no_directory", "no_files"})
       => /\ key \in Keys
          /\ exists(start, directory)
          /\ files # <<>>
          /\ Range(files) = Candidates(start, directory, mode, impl)

\* a decrypt batch ended by a directory that holds files but no artifact
TerminalNoTouchWitness ==
    /\ pc = "Done" /\ ending = "no_files" /\ mode = "decrypt"
    /\ DOMAIN disk # {}
    /\ asked = <<"password", "directory">>

KeyUsable ==
    /\ pc = "CollectingInput"
       => \A password \in PasswordInputs :
            /\ Len(generate_key_from_password(password)) = 44
            /\ Len(urlsafe_b64decode(generate_key_from_password(password)).val) = KeyLen
            /\ Fernet(generate_key_from_password(password)).ok
    /\ ending = "empty_password" => key = <<>>
    /\ (InBatch /\ pc # "CollectingInput" /\ ending # "empty_password") => Fernet(key).ok

\* a batch at the directory prompt, holding the key of "pw"
KeyUsableWitness ==
    /\ pc = "CollectingDirectory"
    /\ key = generate_key_from_password(Pw1)
    /\ Fernet(key).ok

\* C13: right after a successful encrypt_file(path, key) the disk holds
\* exactly one file more than before the call; the new file is in the
\* directory of the source, is named encrypt_filename(basename) + ".kubli"
\* and holds the sealed content of the source; the source and every other
\* file are as they were.
EncryptFileFrame ==
    (call.op = "encrypt_file" /\ call.ok /\ call.arg \in DOMAIN disk)
    => /\ call.val = join(dirname(call.arg),
                          encrypt_filename(basename(call.arg), call.key, call.iv).val
                          \o KubliSuffix)
       /\ dirname(call.val) = dirname(call.arg)
       /\ call.val \notin DOMAIN call.before
       /\ DOMAIN disk = DOMAIN call.before \cup {call.val}
       /\ \A p \in DOMAIN call.before : disk[p] = call.before[p]
       /\ \E ivc \in IVs :
             disk[call.val].data =
                 FernetEncrypt(Fernet(call.key), call.before[call.arg].data, ivc)

\* a successful encrypt_file of a file with content, the source still there
EncryptFileFrameWitness ==
    /\ call.op = "encrypt_file" /\ call.ok
    /\ call.arg \in DOMAIN disk /\ disk[call.arg].data # <<>>
    /\ call.val \in DOMAIN disk /\ call.val # call.arg
    /\ disk[call.val].data # disk[call.arg].data

\* the source of a file call cannot be read: it is no file, or a file the
\* process may not read
Unreadable(dk, p) == ~isfile(dk, p) \/ dk[p].mode = "none"

\* C14: encrypt_filename, encrypt_file, decrypt_filename and decrypt_file
\* answer every failure with None / False: a malformed key, a source that is
\* missing or unreadable, a name that does not decode or was sealed under
\* another key, a destination that cannot be written; encrypt_file and
\* decrypt_file leave the disk as it was when the source is unreadable or
\* the key malformed.
FailAsValue ==
    /\ call.op \in {"encrypt_filename", "decrypt_filename"}
       => /\ ~call.ok => call.val = None.val
          /\ ~Fernet(call.key).ok => ~call.ok
    /\ (call.op = "decrypt_filename" /\ call.arg \in {InvalidData, <<>>}) => ~call.ok
    /\ (call.op = "decrypt_filename" /\ prev.op = "encrypt_filename" /\ prev.ok
        /\ call.arg = prev.val /\ call.key # prev.key) => ~call.ok
    /\ call.op \in {"encrypt_file", "decrypt_file"}
       => /\ (Unreadable(call.before, call.arg) \/ ~Fernet(call.key).ok)
             => (~call.ok /\ call.val = NoPath /\ disk = call.before)
          /\ (diskFull /\ call.val # NoPath /\ disk[call.val].data = <<>>
              /\ call.op = "encrypt_file") => ~call.ok

\* encrypt_file has answered False for a file the process may not read
FailAsValueWitness ==
    /\ call.op = "encrypt_file" /\ ~call.ok
    /\ isfile(call.before, call.arg) /\ call.before[call.arg].mode = "none"
    /\ Fernet(call.key).ok
    /\ disk = call.before

\* both prompts of a batch were answered "y" (or "Y")
AnsweredYesYes(answers) ==
    Len(answers) = 2 /\ Affirmative(Lower(answers[1])) /\ Affirmative(Lower(answers[2]))

\* every entry of the disk is an ordinary file and a candidate of an encrypt
\* batch on dir
PlainDirectory(dk, dir) ==
    /\ DOMAIN dk = EncryptCandidates(dk, dir, impl)
    /\ \A p \in DOMAIN dk : dk[p].mode = "rw"

\* C15: an encrypt batch on a directory of plain candidate files, answered
\* "y" to proceed and "y" to delete, followed by a decrypt batch on the same
\* directory with the same password, answered "y" and "y", ends with the
\* directory holding exactly the files it held at the start, names and
\* contents, and no artifact (the files are ordinary ones and the device
\* has space).
BatchRoundTrip ==
    (/\ pc = "Done" /\ mode = "decrypt" /\ ending = "complete"
     /\ AnsweredYesYes(typed)
     /\ ~diskFull
     /\ log # <<>>
     /\ log[Len(log)].mode = "encrypt" /\ log[Len(log)].ending = "complete"
     /\ AnsweredYesYes(log[Len(log)].typed)
     /\ log[Len(log)].key = key /\ log[Len(log)].directory = directory
     /\ log[Len(log)].start # <<>>
     /\ PlainDirectory(log[Len(log)].start, directory))
    => /\ disk = log[Len(log)].start
       /\ \A p \in DOMAIN disk : ~EndsWith(p, KubliSuffix)

\* the second batch of such a pair has ended, on a directory of two files
BatchRoundTripWitness ==
    /\ pc = "Done" /\ mode = "decrypt" /\ ending = "complete"
    /\ AnsweredYesYes(typed)
    /\ log # <<>>
    /\ log[Len(log)].mode = "encrypt" /\ AnsweredYesYes(log[Len(log)].typed)
    /\ log[Len(log)].key = key
    /\ Cardinality(DOMAIN log[Len(log)].start) = 2
    /\ PlainDirectory(log[Len(log)].start, directory)
    /\ Len(successful) = 2 /\ Cardinality(removed) = 2
    /\ disk = log[Len(log)].start

\* the batch has listed its candidates
Scanned == pc = "AwaitingConfirmation" \/ (pc = "Done" /\ ending = "no_files")

\* C16: the candidates of an encrypt batch are direct children of the
\* target directory; none is a directory, none has a name that ends in
\* ".kubli", none is kubli.py or another source file of the program.
EncryptScanExcludes ==
    (Scanned /\ mode = "encrypt")
    => \A p \in Range(files) :
         /\ dirname(p) = directory
         /\ isfile(start, p)
         /\ ~EndsWith(basename(p), KubliSuffix)
         /\ basename(p) \notin SourceFiles

\* C17: every regular file that is a direct child of the target directory,
\* has no name ending in ".kubli" and is no file of the program is a
\* candidate of an encrypt batch, the files whose name begins with "."
\* included.
EncryptScanComplete ==
    (Scanned /\ mode = "encrypt")
    => \A p \in DOMAIN start :
         (/\ dirname(p) = directory
          /\ isfile(start, p)
          /\ ~EndsWith(basename(p), KubliSuffix)
          /\ basename(p) \notin SourceFiles)
         => p \in Range(files)

\* C18: the candidates of a decrypt batch are exactly the direct children
\* of the target directory whose name ends in ".kubli".
DecryptScanExact ==
    (Scanned /\ mode = "decrypt")
    => Range(files) = {p \in DOMAIN start :
                          dirname(p) = directory /\ EndsWith(basename(p), KubliSuffix)}

\* C19: at the menu prompt, "1" starts an encrypt batch and "2" a decrypt
\* batch, one batch per entry (the batch returns to the menu and counts
\* once); any input other than "1", "2", "3" starts no batch, reports an
\* invalid option and shows the menu again; a batch of kubli.py starts at
\* no other place.
MenuDispatch ==
    [][/\ pc = "Menu"
          => \/ option' = OptionEncrypt /\ pc' = "CollectingInput" /\ mode' = "encrypt"
                /\ batches' = batches
             \/ option' = OptionDecrypt /\ pc' = "CollectingInput" /\ mode' = "decrypt"
                /\ batches' = batches
             \/ option' = OptionExit /\ pc' = "Exited"
             \/ /\ option' \notin {OptionEncrypt, OptionDecrypt, OptionExit}
                /\ pc' = "Menu" /\ ending' = "invalid_option"
                /\ mode' = mode /\ batches' = batches /\ disk' = disk /\ log' = log
       /\ (impl = "kubli" /\ pc # "CollectingInput" /\ pc' = "CollectingInput")
          => pc = "Menu" /\ option' \in {OptionEncrypt, OptionDecrypt}
       /\ (impl = "kubli" /\ pc = "Done")
          => pc' = "Menu" /\ batches' = batches + 1 /\ Len(log') = Len(log) + 1]_vars

\* an invalid option has been answered after a batch that option "1" started
MenuDispatchWitness ==
    /\ pc = "Menu" /\ ending = "invalid_option"
    /\ option \notin {OptionEncrypt, OptionDecrypt, OptionExit, NoOption}
    /\ Len(log) = 1 /\ log[1].mode = "encrypt"

\* C20: main_menu returns only when "3" is entered and "3" always ends it;
\* every batch, however it ends, comes back to the menu prompt, where "3"
\* can be entered.
MenuExitOnly ==
    /\ [](pc = "Exited" => option = OptionExit)
    /\ [][(pc = "Menu" /\ option' = OptionExit) => pc' = "Exited"]_vars
    /\ [](pc = "Menu" => ENABLED MenuExit)
    /\ (InBatch ~> pc = "Menu")

\* "3" was entered after a batch that removed a file
MenuExitOnlyWitness ==
    /\ pc = "Exited" /\ option = OptionExit
    /\ Len(log) = 1 /\ log[1].ending = "complete"
    /\ disk # log[1].start


----------------------------------------------------------------------------
(* Properties of the order of a batch (Spec).                              *)

\* the state of the batch a position of the function belongs to, by its
\* place in CollectingInput, Scanning, AwaitingConfirmation, Processing,
\* AwaitingDeleteConfirmation, Done; the two prompts of CollectingInput are
\* one state, and so are the delete prompt and the removals it allows
StateRank(p) ==
    CASE p \in {"CollectingInput", "CollectingDirectory"} -> 1
      [] p = "Scanning" -> 2
      [] p = "AwaitingConfirmation" -> 3
      [] p = "Processing" -> 4
      [] p \in {"AwaitingDeleteConfirmation", "Deleting"} -> 5
      [] p = "Done" -> 6
      [] OTHER -> 0

\* the early exits to Done: the empty password, the directory that does not
\* exist (found before the scan), the empty candidate set, the declined
\* "Proceed?"
EarlyExit ==
    /\ pc' = "Done"
    /\ \/ pc = "CollectingInput" /\ ending' = "empty_password"
       \/ pc = "CollectingDirectory" /\ ending' = "no_directory"
       \/ pc = "Scanning" /\ ending' = "no_files"
       \/ pc = "AwaitingConfirmation" /\ ending' = "cancelled"

\* a step inside a batch stays in its state or enters the next one
InOrder == StateRank(pc') \in {StateRank(pc), StateRank(pc) + 1}

\* C21 as stated: a batch goes through CollectingInput, Scanning,
\* AwaitingConfirmation, Processing, AwaitingDeleteConfirmation, Done in
\* that order and never back, and the only steps that skip a state are the
\* early exits to Done from CollectingInput, Scanning and
\* AwaitingConfirmation.
BatchStateOrderStated ==
    [][(InBatch /\ pc # "Done") => (InBatch' /\ (InOrder \/ EarlyExit))]_vars

\* C21: a batch goes through CollectingInput, Scanning,
\* AwaitingConfirmation, Processing, AwaitingDeleteConfirmation, Done in
\* that order and never back; the steps that skip a state are the early
\* exits to Done from CollectingInput, Scanning and AwaitingConfirmation,
\* and the step from Processing to Done of a batch in which no candidate
\* succeeded, which asks no delete question.
BatchStateOrder ==
    [][/\ (InBatch /\ pc # "Done")
          => /\ InBatch'
             /\ \/ InOrder
                \/ EarlyExit
                \/ /\ pc = "Processing" /\ pc' = "Done"
                   /\ successful' = <<>> /\ ending' = "complete"
                   /\ idx' = Len(files)
       /\ pc = "Done" => ~InBatch']_vars

\* a batch that was confirmed, processed its candidates with no success and
\* is done without a delete question
BatchStateOrderWitness ==
    /\ pc = "Done" /\ ending = "complete"
    /\ asked = <<"password", "directory", "proceed">>
    /\ results # <<>> /\ successful = <<>>


\* how many times a prompt was asked by the batch
TimesAsked(prompt) == Cardinality({i \in DOMAIN asked : asked[i] = prompt})

\* C22: a batch that passed "Proceed?" asks the delete question once if a
\* candidate succeeded and never if none did; the question comes after the
\* last candidate was processed, and while candidates are being processed
\* nothing is removed.
DeletePromptTiming ==
    /\ TimesAsked("delete") <= 1
    /\ TimesAsked("delete") = 1
       => /\ successful # <<>>
          /\ idx = Len(files) /\ Len(results) = Len(files)
          /\ asked[Len(asked)] = "delete"
    /\ (pc = "Done" /\ ending = "complete")
       => TimesAsked("delete") = (IF successful # <<>> THEN 1 ELSE 0)
    /\ pc = "Processing"
       => /\ TimesAsked("delete") = 0
          /\ ndel = 0 /\ removed = {}
          /\ DOMAIN start \subseteq DOMAIN disk
    /\ (removed # {} \/ ndel > 0) => TimesAsked("delete") = 1

\* a batch of two candidates, one of which succeeded, asked once and removed
\* the source of that one
DeletePromptTimingWitness ==
    /\ pc = "Done" /\ ending = "complete"
    /\ Len(files) = 2 /\ Len(successful) = 1
    /\ TimesAsked("delete") = 1
    /\ removed = {successful[1]}


\* the delete question was asked and the answer was neither "y" nor "Y"
DeleteDeclined ==
    /\ TimesAsked("delete") = 1
    /\ typed[Len(typed)] \notin {<<121>>, <<89>>}

\* C23: when the answer to the delete question is anything but "y" or "Y",
\* the batch removes nothing: when it is done every file it started with is
\* on disk, and for every candidate that succeeded the source is there with
\* its content and the file the call wrote is there too.
DeclineKeepsBoth ==
    (pc = "Done" /\ DeleteDeclined)
    => /\ removed = {} /\ ndel = 0
       /\ DOMAIN start \subseteq DOMAIN disk
       /\ \A i \in 1..Len(files) :
            results[i]
            => /\ isfile(disk, files[i])
               /\ disk[files[i]] = start[files[i]]
               /\ outputs[i].path # files[i]
               /\ isfile(disk, outputs[i].path)

\* "yes" was answered to the delete question of a batch with a success
DeclineKeepsBothWitness ==
    /\ pc = "Done" /\ DeleteDeclined
    /\ typed[Len(typed)] = <<121, 101, 115>>
    /\ successful # <<>>
    /\ \E i \in 1..Len(files) : results[i] /\ outputs[i].path \notin DOMAIN start


\* the delete question was asked and the answer was "y" or "Y"
DeleteAccepted ==
    /\ TimesAsked("delete") = 1
    /\ typed[Len(typed)] \in {<<121>>, <<89>>}

\* C24: a removal that fails stops nothing: the loop of removals goes on to
\* every other success and the batch comes to its completion line; the
\* list of successes, the results recorded and the count are what they were
\* before the removals.
DeleteFailuresIsolated ==
    /\ [][pc = "Deleting"
          => /\ pc' \in {"Deleting", "Done"}
             /\ ndel' = ndel + 1
             /\ successful' = successful /\ results' = results
             /\ (pc' = "Done" <=> ndel' = Len(successful))]_vars
    /\ []((pc = "Done" /\ DeleteAccepted)
           => /\ ending = "complete"
              /\ ndel = Len(successful)
              /\ summary = Len(successful)
              /\ \A i \in 1..Len(successful) :
                   IF start[successful[i]].mode = "locked"
                   THEN successful[i] \notin removed /\ isfile(disk, successful[i])
                   ELSE successful[i] \in removed /\ ~exists(disk, successful[i]))

\* of two successes, the source of the first could not be removed and the
\* source of the second was removed after it
DeleteFailuresIsolatedWitness ==
    /\ pc = "Done" /\ DeleteAccepted
    /\ Len(successful) = 2 /\ summary = 2
    /\ removed = {successful[2]}
    /\ isfile(disk, successful[1])


\* the batch got "y" or "Y" at "Proceed?"
Proceeded == TimesAsked("proceed") = 1 /\ confirm = Yes

\* C25: a batch that passed "Proceed?" ends with the completion line, and
\* its count is the number of candidates whose encrypt_file / decrypt_file
\* call returned True: between 0 and the number of candidates, 0 when every
\* candidate failed, whatever was answered to the delete question and
\* whatever the removals did; no other batch prints a count.
FinalCountIsSuccesses ==
    /\ (pc = "Done" /\ Proceeded)
       => /\ ending = "complete"
          /\ Len(results) = Len(files)
          /\ summary = Cardinality({i \in 1..Len(results) : results[i]})
          /\ summary >= 0 /\ summary <= Len(files)
    /\ (pc = "Done" /\ ~Proceeded) => summary = -1 /\ ending # "complete"
    /\ pc \notin {"Done", "Menu", "Test", "Exited"} => summary = -1

\* a batch of two candidates, one success, whose removal failed: count 1
FinalCountIsSuccessesWitness ==
    /\ pc = "Done" /\ Proceeded /\ DeleteAccepted
    /\ Len(files) = 2 /\ summary = 1
    /\ removed = {}

\* a batch in which every candidate failed: completion with count 0
FinalCountZero ==
    /\ pc = "Done" /\ Proceeded
    /\ summary = 0 /\ Len(files) > 0


\* the candidates processed so far that succeeded, in the order of the scan
RECURSIVE SuccessesUpTo(_)
SuccessesUpTo(n) ==
    IF n = 0 THEN <<>>
    ELSE IF results[n] THEN Append(SuccessesUpTo(n - 1), files[n])
    ELSE SuccessesUpTo(n - 1)

\* C26: the loop passes each candidate once to encrypt_file / decrypt_file,
\* in the order of the list the scan produced; the list of successes is the
\* candidates that succeeded in that same order, and the removals go
\* through the list of successes in its order.
ProcessingOrder ==
    /\ [](InBatch
           => /\ Len(results) = idx /\ idx <= Len(files)
              /\ \A i, j \in 1..Len(files) : files[i] = files[j] => i = j
              /\ successful = SuccessesUpTo(idx)
              /\ ndel <= Len(successful)
              /\ removed \subseteq {successful[i] : i \in 1..ndel})
    /\ [][pc = "Processing"
          => /\ idx' = idx + 1 /\ files' = files
             /\ \E ivc \in DrawIVs(mode, IVs), ivn \in DrawIVs(mode, IVs) :
                  \E r \in {Transform(disk, mode, files[idx + 1], key, ivc, ivn, diskFull)} :
                     /\ disk' = r.disk
                     /\ results' = Append(results, r.ok)]_vars
    /\ [][pc = "Deleting"
          => /\ ndel' = ndel + 1 /\ successful' = successful
             /\ \E r \in {RemoveFile(disk, successful[ndel + 1])} :
                  /\ disk' = r.disk
                  /\ removed' = IF r.ok THEN removed \cup {successful[ndel + 1]}
                                ELSE removed]_vars

\* two candidates, the first failed and the second succeeded and was
\* removed
ProcessingOrderWitness ==
    /\ pc = "Done" /\ Len(files) = 2
    /\ results = <<FALSE, TRUE>>
    /\ successful = <<files[2]>>
    /\ removed = {files[2]}


----------------------------------------------------------------------------
(* Properties of decrypt_file and encrypt_file on damaged inputs.          *)

\* the body of the artifact at p opens under k
BodyOpens(dk, p, k) ==
    /\ Fernet(k).ok
    /\ ReadFile(dk, p).ok
    /\ FernetDecrypt(Fernet(k), ReadFile(dk, p).val).ok

\* the name segment of the artifact at p opens under k
NameOpens(p, k) == decrypt_filename(Replace(basename(p), KubliSuffix, <<>>), k).ok

\* C27: decrypt_file opens a file for writing only when the body and the
\* name segment of the artifact both opened under the key; when one of them
\* does not (the other opening or not), it returns False and the disk is
\* what it was: no file created, none modified.
DecryptWritesAfterBothOpen ==
    call.op = "decrypt_file"
    => \E both \in {BodyOpens(call.before, call.arg, call.key)
                     /\ NameOpens(call.arg, call.key)} :
          /\ call.ok => both
          /\ call.val # NoPath => both
          /\ ~both => ~call.ok /\ disk = call.before

\* decrypt_file returned False on an artifact whose body opens and whose
\* name does not, beside the file "a"
DecryptWritesAfterBothOpenWitness ==
    /\ call.op = "decrypt_file" /\ ~call.ok
    /\ BodyOpens(call.before, call.arg, call.key)
    /\ ~NameOpens(call.arg, call.key)
    /\ isfile(disk, join(Cwd, NameA))

\* decrypt_file returned False on an artifact whose name opens and whose
\* body does not
NameOpensBodyDoesNot ==
    /\ call.op = "decrypt_file" /\ ~call.ok
    /\ ~BodyOpens(call.before, call.arg, call.key)
    /\ ReadFile(call.before, call.arg).ok
    /\ NameOpens(call.arg, call.key)


\* C28: the file a successful decrypt_file writes is a direct child of the
\* directory that holds the artifact, and it is the only file written,
\* whatever name the name token gave back.
DecryptOutputInDirectory ==
    (call.op = "decrypt_file" /\ call.ok)
    => /\ dirname(call.val) = dirname(call.arg)
       /\ LastSlash(call.val) = Len(dirname(call.arg)) + 1
       /\ \A p \in DOMAIN disk :
            (p \notin DOMAIN call.before \/ disk[p] # call.before[p]) => p = call.val


\* C29: when the write of the destination fails part way, encrypt_file
\* returns False, and when the batch is done the directory holds no
\* artifact that is cut short or empty: every ".kubli" file the batch
\* added is the whole output of a call that returned True.
NoPartialArtifact ==
    (pc = "Done" /\ mode = "encrypt" /\ Proceeded)
    => /\ \A i \in 1..Len(results) :
            results[i]
            => /\ isfile(disk, outputs[i].path)
               /\ FernetDecrypt(Fernet(key), disk[outputs[i].path].data).ok
       /\ \A p \in DOMAIN disk \ DOMAIN start :
            EndsWith(p, KubliSuffix)
            => \E i \in 1..Len(results) :
                  /\ results[i] /\ outputs[i].path = p
                  /\ disk[p].data = outputs[i].data
                  /\ disk[p].data # <<>>


----------------------------------------------------------------------------
(* Properties of the listing shown before "Proceed?" (Spec).               *)

\* C30: in a decrypt batch the listing has one line per artifact the scan
\* found, with the recovered name or without one; an artifact whose name
\* does not open stays a candidate, a scan that found artifacts goes on to
\* "Proceed?", and at that prompt the disk is what it was when the batch
\* started.
PreviewBestEffort ==
    /\ []((pc = "AwaitingConfirmation" /\ mode = "decrypt")
           => /\ disk = start
              /\ files # <<>>
              /\ Range(files) = GlobKubli(start, directory)
              /\ Len(preview) = Len(files)
              /\ asked = <<"password", "directory">>)
    /\ [][(pc = "Scanning" /\ mode = "decrypt")
          => /\ disk' = disk
             /\ (GlobKubli(disk, directory) # {}) => pc' = "AwaitingConfirmation"]_vars

\* a listing with a line that shows a name and a line that shows none
PreviewBestEffortWitness ==
    /\ pc = "AwaitingConfirmation" /\ mode = "decrypt"
    /\ Len(files) = 2
    /\ \E i, j \in 1..2 : preview[i].ok /\ ~preview[j].ok


----------------------------------------------------------------------------
(* Properties of the artifacts and the files of a batch.                   *)

\* C31: the encrypt_file calls of one directory write to pairwise different
\* ".kubli" paths, none of which was on disk before; until the removals
\* every file that was there is as it was, and every artifact a call wrote
\* still holds what that call wrote.
DistinctArtifacts ==
    (InBatch /\ mode = "encrypt")
    => /\ \A i \in 1..Len(results) :
            outputs[i].path # NoPath
            => /\ EndsWith(outputs[i].path, KubliSuffix)
               /\ dirname(outputs[i].path) = directory
               /\ outputs[i].path \notin DOMAIN start
               /\ isfile(disk, outputs[i].path)
               /\ disk[outputs[i].path].data = outputs[i].data
               /\ \A j \in 1..Len(results) :
                    outputs[j].path = outputs[i].path => i = j
       /\ Cardinality({outputs[i].path : i \in {n \in 1..Len(results) : results[n]}})
             = Len(successful)
       /\ \A p \in DOMAIN start : p \notin removed => (p \in DOMAIN disk /\ disk[p] = start[p])

\* two files were encrypted beside nothing else: two artifacts
DistinctArtifactsWitness ==
    /\ pc = "AwaitingDeleteConfirmation" /\ mode = "encrypt"
    /\ Len(successful) = 2
    /\ Cardinality(DOMAIN disk) = 4
    /\ outputs[1].path # outputs[2].path


\* the artifact at p was sealed, body and name, under a password that is
\* not the one of this batch
SealedUnderAnother(p) ==
    \E k \in Keys \ {key} : BodyOpens(start, p, k) /\ NameOpens(p, k)

\* C32: a decrypt batch whose password is not the one of any artifact of
\* the directory, confirmed with "y", has no success: every call returns
\* False, the delete question is not asked, no file is written or removed
\* (the disk stays what it was) and the completion line counts 0.
WrongPasswordNoOp ==
    (/\ InBatch /\ mode = "decrypt" /\ Proceeded
     /\ \A i \in 1..Len(files) : SealedUnderAnother(files[i]))
    => /\ disk = start
       /\ successful = <<>>
       /\ \A i \in 1..Len(results) : ~results[i] /\ outputs[i].path = NoPath
       /\ TimesAsked("delete") = 0
       /\ removed = {} /\ ndel = 0
       /\ pc \in {"Processing", "Done"}
       /\ pc = "Done" => (summary = 0 /\ ending = "complete")

\* the batch of "x" on two artifacts of "pw" is done
WrongPasswordNoOpWitness ==
    /\ pc = "Done" /\ mode = "decrypt" /\ Proceeded
    /\ Len(files) = 2 /\ Len(results) = 2
    /\ key = generate_key_from_password(Pw2)
    /\ \A i \in 1..2 : SealedUnderAnother(files[i])


\* the path decrypt_file writes to for the i-th candidate of the batch
Target(i) ==
    join(dirname(files[i]),
         decrypt_filename(Replace(basename(files[i]), KubliSuffix, <<>>), key).val)

\* the i-th candidate opens under the key of the batch, body and name, and
\* its target is free or an ordinary file
Decryptable(i) ==
    /\ BodyOpens(start, files[i], key) /\ NameOpens(files[i], key)
    /\ \E t \in {Target(i)} :
          t \in DOMAIN start => (~start[t].isdir /\ start[t].mode = "rw")

\* C33: decrypt_file makes no test of the target: on an artifact that opens
\* it returns True also when a file is at the recovered name, and that file
\* then holds the decrypted content; of two artifacts of a batch with the
\* same recovered name both succeed and the file holds the content of the
\* one processed last.
DecryptOverwrites ==
    (InBatch /\ mode = "decrypt" /\ ~diskFull)
    => \A i \in 1..Len(results) :
          Decryptable(i)
          => /\ results[i]
             /\ outputs[i].path = Target(i)
             /\ outputs[i].data = FernetDecrypt(Fernet(key), start[files[i]].data).val
             /\ (\A j \in (i + 1)..Len(results) : outputs[j].path # outputs[i].path)
                => (isfile(disk, Target(i)) /\ disk[Target(i)].data = outputs[i].data)

\* two artifacts of "a" with different contents were decrypted, and "a"
\* holds the second content
DecryptOverwritesWitness ==
    /\ InBatch /\ mode = "decrypt" /\ ~diskFull
    /\ results = <<TRUE, TRUE>>
    /\ outputs[1].path = outputs[2].path
    /\ outputs[1].data # outputs[2].data
    /\ disk[outputs[2].path].data = outputs[2].data

\* a file that was at the recovered name holds the decrypted content
ExistingFileReplaced ==
    /\ InBatch /\ mode = "decrypt"
    /\ \E i \in 1..Len(results) :
          /\ results[i] /\ outputs[i].path \in DOMAIN start
          /\ disk[outputs[i].path].data = outputs[i].data
          /\ start[outputs[i].path].data # outputs[i].data


----------------------------------------------------------------------------
(* The two copies of the batch: src/kubli.py and src/utils.                *)

\* the copy that is not running
OtherImpl == IF impl = "kubli" THEN "utils" ELSE "kubli"

\* C34: on the same directory and the same answers the batch of kubli.py
\* and the batch of src/utils select the same candidates (and so, their
\* text being the same from the listing on, ask the same prompts and leave
\* the same files): the candidates a scan selected are the candidates the
\* other copy selects in that directory.
CopiesAgree ==
    /\ (pc = "Scanning")
       => Candidates(disk, directory, mode, impl) = Candidates(disk, directory, mode, OtherImpl)
    /\ (Scanned /\ pc \in {"AwaitingConfirmation", "Done"} /\ disk = start)
       => /\ Range(files) = Candidates(start, directory, mode, OtherImpl)
          /\ AfterScan(files) = pc


\* C35: decrypt_file leaves the artifact it is given as it is, whether it
\* returns True or False: through the loop of a decrypt batch every
\* candidate stays on disk with its content, and a candidate is gone only
\* when the removals that follow a "y" to the delete question took it.
DecryptKeepsInput ==
    /\ []((InBatch /\ mode = "decrypt")
           => /\ \A i \in 1..Len(files) :
                   IF files[i] \in removed THEN ~exists(disk, files[i])
                   ELSE isfile(disk, files[i]) /\ disk[files[i]] = start[files[i]]
              /\ removed # {} => (DeleteAccepted /\ pc \in {"Deleting", "Done"}))
    /\ [][(pc = "Processing" /\ mode = "decrypt")
          => \A p \in Range(files) : p \in DOMAIN disk' /\ disk'[p] = disk[p]]_vars

\* of two artifacts one was decrypted and one was not, and both are there
DecryptKeepsInputWitness ==
    /\ pc = "Done" /\ mode = "decrypt"
    /\ Len(results) = 2 /\ results[1] # results[2]
    /\ removed = {}
    /\ \A i \in 1..2 : isfile(disk, files[i])


----------------------------------------------------------------------------
(* Properties of the name codec's text (ApiSpec).                          *)

\* the characters of a Fernet token: the URL-safe alphabet and '='
TokenChars == {B64Char(v) : v \in 0..63} \cup {PadChar}

\* C36: in a name encrypt_filename returns, '_' stands only at the end, at
\* most twice, where the base64 padding was; the base64 text of a Fernet
\* token has no '_' of its own, so replacing every '_' by '=' gives back
\* exactly the base64 text that was produced.
UnderscoreUnambiguous ==
    /\ (call.op = "encrypt_filename" /\ call.ok)
       => \E s \in {call.val} :
            /\ \A i \in 1..Len(s) :
                 s[i] = UnderscoreChar
                 => /\ i >= Len(s) - 1
                    /\ \A j \in i..Len(s) : s[j] = UnderscoreChar
            /\ PadChar \notin Range(s)
            /\ Replace(s, <<UnderscoreChar>>, <<PadChar>>)
                 = urlsafe_b64encode(FernetEncrypt(Fernet(call.key), call.arg, call.iv))
    /\ call.op = "encrypt_filename"
       => \A c \in TokenChars, d \in {65, 95, 122} :
            /\ UnderscoreChar \notin Range(urlsafe_b64encode(<<c, d, d>>))
            /\ UnderscoreChar \notin Range(urlsafe_b64encode(<<d, c, d>>))
            /\ UnderscoreChar \notin Range(urlsafe_b64encode(<<d, d, c>>))

\* a name was returned that ends in "__"
UnderscoreUnambiguousWitness ==
    /\ call.op = "encrypt_filename" /\ call.ok
    /\ Len(call.val) > 2
    /\ call.val[Len(call.val)] = UnderscoreChar
    /\ call.val[Len(call.val) - 1] = UnderscoreChar


----------------------------------------------------------------------------
(* Properties of the suffix handling (DoubledSpec).                        *)

\* the base name of a path without its last ".kubli"
WithoutLastSuffix(p) == SubSeq(basename(p), 1, Len(basename(p)) - Len(KubliSuffix))

\* C37: for every candidate of a decrypt batch, the string handed to
\* decrypt_filename is the base name without its one trailing ".kubli" and
\* otherwise unchanged, so the preview shows what that string decodes to.
SuffixStripped ==
    (mode = "decrypt" /\ pc \in {"AwaitingConfirmation", "Processing"})
    => \A i \in 1..Len(files) :
         EndsWith(basename(files[i]), KubliSuffix)
         => /\ Replace(basename(files[i]), KubliSuffix, <<>>) = WithoutLastSuffix(files[i])
            /\ preview[i].ok = decrypt_filename(WithoutLastSuffix(files[i]), key).ok

====
